---------------------------- MODULE Spec2Model ----------------------------
(***************************************************************************)
(* Vanadium: a RISC-V virtual machine on a secure element whose guest      *)
(* pages live on an untrusted host.  This module models                    *)
(*   - the device page cache (vm/src/handlers/lib/outsourced_mem.rs) under *)
(*     the CPU's byte accesses (common/src/vm.rs), talking to a host that  *)
(*     may answer anything,                                                 *)
(*   - the host engine's page-commit service                               *)
(*     (client-sdk/src/vanadium_client.rs) over Merkle accumulators        *)
(*     (common/src/accumulator.rs),                                        *)
(*   - the buffer transport: the device's xrecv / xsend ECALL handlers     *)
(*     (vm/src/handlers/lib/ecall.rs) and the host engine's                *)
(*     process_receive_buffer / process_send_buffer_generic.               *)
(*   - the Merkle accumulator's own interface, the big-number ECALL        *)
(*     handlers and the CPU's execute (common/src/vm.rs), each under any   *)
(*     arguments,                                                          *)
(*   - the client's worker loop and its shutdown, the guest SDK's chunked  *)
(*     messages (app-sdk/src/comm.rs) and review pages (app-sdk/src/ux.rs),*)
(*     and the NVRAM slots of the V-App store (vm/src/nvm.rs, vapp.rs).    *)
(* Byte values are abstracted to Byte; pages, sections and messages are    *)
(* scaled down by the bounds below.                                        *)
(***************************************************************************)
EXTENDS Integers, Sequences, FiniteSets, TLC

\* ------------------------------------------------------------------ bounds
\* Bytes per page (256 in common/src/constants.rs, scaled down).
PAGE_SIZE == 2
\* Pages per section.
NPages == 2
\* CPU accesses per run.
MaxAccesses == 3

\* ----------------------------------------------------------- basic values
Byte == {0, 1}
None == <<>>
Some(x) == <<x>>
Sections == {"Code", "Data", "Stack"}
PageIndexes == 0 .. (NPages - 1)
Pages == [1 .. PAGE_SIZE -> Byte]
ZeroPage == [i \in 1 .. PAGE_SIZE |-> 0]

\* The initial image of each section (what the manifest's roots commit to).
Image(s, i) == IF s = "Code" THEN [k \in 1 .. PAGE_SIZE |-> 1] ELSE ZeroPage

\* -------------------------------------------------- Merkle accumulator
\* The hash is modelled as an injective constructor (no collisions).
hash_leaf(d) == <<"leaf", d>>
hash_internal_node(l, r) == <<"node", l, r>>

RECURSIVE NodeHash(_, _)
NodeHash(data, i) ==
    LET n == Len(data) IN
    IF i >= n - 1
    THEN hash_leaf(data[i - (n - 1) + 1])
    ELSE hash_internal_node(NodeHash(data, 2 * i + 1), NodeHash(data, 2 * i + 2))

build_tree(data) == [i \in 0 .. (2 * Len(data) - 2) |-> NodeHash(data, i)]

new(data) == [data |-> data, tree |-> build_tree(data)]

root(acc) == acc.tree[0]

RECURSIVE ProvePath(_, _)
ProvePath(tree, pos) ==
    IF pos = 0 THEN <<>>
    ELSE <<(IF pos % 2 = 0 THEN tree[pos - 1] ELSE tree[pos + 1])>>
            \o ProvePath(tree, (pos - 1) \div 2)

\* A prove that wraps its index into the vector.
prove_wrapped(acc, index) ==
    [ok |-> TRUE,
     proof |-> ProvePath(acc.tree, Len(acc.data) - 1 + (index % Len(acc.data)))]

\* prove: the co-path of leaf `index`, or the error for an index out of bounds.
prove(acc, index) ==
    IF index >= Len(acc.data) THEN [ok |-> FALSE, proof |-> <<>>]
    ELSE [ok |-> TRUE, proof |-> ProvePath(acc.tree, Len(acc.data) - 1 + index)]

RECURSIVE FoldProof(_, _, _)
FoldProof(hash, proof, pos) ==
    IF proof = <<>> THEN hash
    ELSE FoldProof(IF pos % 2 = 0
                   THEN hash_internal_node(Head(proof), hash)
                   ELSE hash_internal_node(hash, Head(proof)),
                   Tail(proof), (pos - 1) \div 2)

verify_inclusion_proof(rt, proof, element, index, size) ==
    FoldProof(hash_leaf(element), proof, size - 1 + index) = rt

\* A tree whose inner nodes are left as they were.
RehashNothing(tree, pos) == tree

RECURSIVE Rehash(_, _)
Rehash(tree, pos) ==
    IF pos = 0 THEN tree
    ELSE LET p == (pos - 1) \div 2 IN
         Rehash([tree EXCEPT ![p] = hash_internal_node(tree[2 * p + 1], tree[2 * p + 2])], p)

\* update: replaces leaf `index`, rehashes its path, returns (co-path, old root).
update(acc, index, value) ==
    IF index >= Len(acc.data)
    THEN [ok |-> FALSE, acc |-> acc, proof |-> <<>>, old_root |-> root(acc)]
    ELSE LET pos == Len(acc.data) - 1 + index
             t1 == [acc.tree EXCEPT ![pos] = hash_leaf(value)]
         IN [ok |-> TRUE,
             acc |-> [data |-> [acc.data EXCEPT ![index + 1] = value],
                      tree |-> Rehash(t1, pos)],
             proof |-> ProvePath(acc.tree, pos),
             old_root |-> root(acc)]

\* A serialized page, the accumulator leaf: is_encrypted, nonce, content.
SerializedPage(is_encrypted, nonce, data) ==
    [is_encrypted |-> is_encrypted, nonce |-> nonce, data |-> data]

ImageLeaves(s) == [i \in 1 .. NPages |-> SerializedPage(FALSE, 0, Image(s, i - 1))]


\* ------------------------------------------------------------- variables
VARIABLES
    side,         \* which program the behaviour follows: "device" or "host"
    mem,          \* the three OutsourcedMemory objects: idx, page, is_readonly
    pc,           \* where the device is: idle, waiting in next_command, or ended
    cur,          \* the CPU access being served
    tx,           \* comm: bytes appended to the APDU buffer and not yet sent
    hist,         \* frames sent and commands received while serving cur
    naccess,      \* CPU accesses started in this run
    lastFetch,    \* the page most recently taken from a GetPage reply
    stored,       \* sections a store instruction has written in this run
    lastWrite,    \* the most recent store: <<address, value>>
    readRes,      \* the most recent completed load: <<address, value>>
    manifest,     \* the manifest held by the device (its three Merkle roots)
    host_acc,     \* host engine: one accumulator per section
    host_out,     \* host engine: result of the last process_commit_page
    peer,         \* buffer transport: who answers the device, "engine" or "any"
    gmem,         \* guest memory: the bytes of the segment holding the buffer
    written,      \* guest addresses written by the xrecv call in progress
    rx,           \* handle_xrecv: its position and local variables
    rwire,        \* the frame or command in flight during an xrecv
    eng,          \* host engine: process_receive_buffer's position and locals
    pending_receive_buffer,  \* host engine: the message queued for the guest
    pending_response,        \* worker_loop: a caller is waiting for its answer
    sent,         \* messages the worker accepted from send_message callers
    sender,       \* xsend: who sends frames to the host, "device" or "any"
    xs,           \* handle_xsend: its position and local variables
    swire,        \* the frame or command in flight during an xsend
    hs,           \* host engine: process_send_buffer_generic's position and locals
    handed,       \* buffers the host engine handed over, with their BufferType
    xf,           \* host engine in a run with page requests: position and locals
    xw,           \* the frame or command in flight in that run
    xlog,         \* buffer frames, chunks and page requests of the current transfer
    xres,         \* what the last completed transfer delivered
    xdone,        \* summaries of the completed transfers
    wmode,        \* the client in use: "worker" (VanadiumAppClient) or "sync"
    wq,           \* worker: the channel of WorkerMessage requests
    wpending,     \* worker: pending_response, the caller waiting for its answer
    wengine,      \* client.engine is Some: a V-App is running
    wanswers,     \* what each send_message call returned, once it has
    reg,          \* device: VAPP_STORE, the NVRAM table of registered V-Apps
    dev,          \* device: where the command loop is and the handler's locals
    dcmd,         \* device: the command being handled
    dout,         \* device: the responses sent while handling dcmd, in order
    hstart,       \* host: what VAppEngine::start returned for dcmd
    ma,           \* a MerkleAccumulator: data and tree
    ma_upd,       \* the last update that succeeded: what it replaced and returned
    ma_call,      \* the last call on the accumulator and its result
    bn,           \* the last big-number ECALL: its arguments, accesses and result
    cpu,          \* Cpu: pc and regs
    cmem,         \* Cpu: the bytes of the paged memory of each segment
    segs,         \* Cpu: the three MemorySegments, and the build's overflow checks
    cres,         \* the last instruction given to execute, and how it ended
    cm,           \* app-sdk comm: send_message and receive_message and their buffers
    nv,           \* LazyStorage slots in NVRAM and the operation in progress
    ux            \* review_pairs: the page shown, the events taken, the result

memVars == <<mem, pc, cur, tx, hist, naccess, lastFetch, stored, lastWrite, readRes, manifest>>
hostVars == <<host_acc, host_out>>
recvVars == <<peer, gmem, written, rx, rwire, eng, pending_receive_buffer,
              pending_response, sent>>
sendVars == <<sender, xs, swire, hs, handed>>
xferVars == <<xf, xw, xlog, xres, xdone>>
workerVars == <<wmode, wq, wpending, wengine, wanswers>>
deviceVars == <<reg, dev, dcmd, dout, hstart>>
accVars == <<ma, ma_upd, ma_call>>
protocolVars == <<side, memVars, hostVars, recvVars, sendVars, xferVars, workerVars, deviceVars>>
bnVars == <<bn>>
cpuVars == <<cpu, cmem, segs, cres>>
sdkVars == <<cm, nv, ux>>
vars == <<protocolVars, accVars, bnVars, cpuVars, sdkVars>>

\* ------------------------------------------------ segments (common/vm.rs)
\* The manifest's layout: code, data and stack follow each other.
SegmentSize == NPages * PAGE_SIZE
start_address(s) ==
    IF s = "Code" THEN 0 ELSE IF s = "Data" THEN SegmentSize ELSE 2 * SegmentSize
\* The addresses the CPU accesses: the first byte of every page, the last byte
\* of the first data page, and one address outside every segment.
Addresses ==
    {start_address(s) + i * PAGE_SIZE : s \in Sections, i \in PageIndexes}
    \cup {start_address("Data") + PAGE_SIZE - 1, 3 * SegmentSize}

\* address & !(PAGE_SIZE - 1): the start of the page holding the address.
page_start(address) == address - (address % PAGE_SIZE)

contains(s, address) ==
    address >= start_address(s) /\ address < start_address(s) + SegmentSize

\* Cpu::read_u8: the segment a load is served from, "" when there is none.
ReadSegment(address) ==
    IF contains("Stack", address) THEN "Stack"
    ELSE IF contains("Data", address) THEN "Data"
    ELSE IF contains("Code", address) THEN "Code"
    ELSE ""

\* WriteSegment with the code segment made writable.
WriteSegmentWithCode(address) ==
    IF contains("Stack", address) THEN "Stack"
    ELSE IF contains("Data", address) THEN "Data"
    ELSE IF contains("Code", address) THEN "Code"
    ELSE ""

\* Cpu::write_u8: the segment a store is served from, "" when there is none.
WriteSegment(address) ==
    IF contains("Stack", address) THEN "Stack"
    ELSE IF contains("Data", address) THEN "Data"
    ELSE ""

\* MemorySegment::read_u8 / write_u8: page index and offset of an address.
page_index_of(s, address) == (address - page_start(start_address(s))) \div PAGE_SIZE
offset_of(s, address) == (address - page_start(start_address(s))) % PAGE_SIZE

\* ------------------------------------------------------ comm (vm io.rs)
\* What comm.append puts in the APDU buffer.
CodeItem(c) == [k |-> "code", c |-> c, n |-> 0, b |-> <<>>]
U32Item(n) == [k |-> "u32", c |-> "", n |-> n, b |-> <<>>]
BytesItem(b) == [k |-> "bytes", c |-> "", n |-> 0, b |-> b]

\* comm.reply(sw): everything appended since the last send leaves in one frame.
OutEvent(body) == [dir |-> "out", body |-> body, ins |-> "", p1 |-> 0, p2 |-> 0]
\* comm.next_command(): the command the host chose to send.
InEvent(cmd) == [dir |-> "in", body |-> <<>>, ins |-> cmd.ins, p1 |-> cmd.p1, p2 |-> cmd.p2]

Instructions == {"Continue", "GetAppInfo"}
Command(ins, p1, p2, data) == [ins |-> ins, p1 |-> p1, p2 |-> p2, data |-> data]
\* The commands the host may send: Continue with any p1 and a page body of the
\* right or of a wrong length, Continue with p2 set, and another instruction.
Commands ==
    {Command("Continue", p1, 0, d) : p1 \in Byte, d \in [1 .. (PAGE_SIZE - 1) -> Byte] \cup {ZeroPage}}
    \cup {Command("Continue", 0, 1, ZeroPage), Command("GetAppInfo", 0, 0, ZeroPage)}

IsContinue00(cmd) == cmd.ins = "Continue" /\ cmd.p1 = 0 /\ cmd.p2 = 0

IdleCur == [addr |-> 0, kind |-> "", value |-> 0, seg |-> "", page_index |-> 0]

\* The load or store itself, once the page is in the cache (MemorySegment).
Complete(m, c) ==
    /\ pc' = "idle"
    /\ cur' = IdleCur
    /\ IF c.kind = "write"
       THEN /\ mem' = [m EXCEPT ![c.seg].page[offset_of(c.seg, c.addr) + 1] = c.value]
            /\ stored' = stored \cup {c.seg}
            /\ lastWrite' = Some(<<c.addr, c.value>>)
            /\ readRes' = None
       ELSE /\ mem' = m
            /\ readRes' = Some(<<c.addr, m[c.seg].page[offset_of(c.seg, c.addr) + 1]>>)
            /\ UNCHANGED <<stored, lastWrite>>

\* OutsourcedMemory::get_page, lines 82-85: ask the host for the page.
SendGetPage(c, buffer, h) ==
    /\ tx' = <<>>
    /\ hist' = Append(h, OutEvent(buffer \o <<CodeItem("GetPage"), U32Item(c.page_index)>>))
    /\ pc' = "get_wait"

\* OutsourcedMemory::commit_page, lines 38-42: announce the page to commit.
SendCommitPage(s) ==
    /\ tx' = <<>>
    /\ hist' = <<OutEvent(tx \o <<CodeItem("CommitPage"), U32Item(mem[s].idx[1])>>)>>
    /\ pc' = "commit_wait1"

\* OutsourcedMemory::commit_page, lines 52-54: the page content is appended
\* to the buffer; the code calls next_command without a reply in between.
AppendPageContent(s) == tx \o <<CodeItem("CommitPageContent"), BytesItem(mem[s].page)>>

\* OutsourcedMemory::get_page, lines 72-80: whether the cached page is written
\* back before another one is fetched.
MustCommit(m) == m.idx # None /\ ~m.is_readonly

\* OutsourcedMemory::get_page, lines 87-98: whether the reply is taken.
GetPageReplyOk(cmd) ==
    /\ cmd.ins = "Continue"
    /\ cmd.p2 = 0
    /\ Len(cmd.data) = PAGE_SIZE - 1

\* A load or store of one byte: Cpu::read_u8 / write_u8, MemorySegment, and
\* get_page up to its first exchange with the host.
Access(addr, kind, value) ==
    /\ side = "device"
    /\ pc = "idle"
    /\ naccess < MaxAccesses
    /\ naccess' = naccess + 1
    /\ UNCHANGED <<lastFetch, manifest>>
    /\ LET seg == IF kind = "read" THEN ReadSegment(addr) ELSE WriteSegment(addr)
           c == [addr |-> addr, kind |-> kind, value |-> value, seg |-> seg,
                 page_index |-> IF seg = "" THEN 0 ELSE page_index_of(seg, addr)]
       IN IF seg = ""
          THEN \* Err("Address out of bounds"): the run ends with VMRuntimeError
               /\ pc' = "error"
               /\ cur' = c
               /\ hist' = <<>>
               /\ UNCHANGED <<mem, tx, stored, lastWrite, readRes>>
          ELSE IF mem[seg].idx = Some(c.page_index)
          THEN /\ Complete(mem, c)
               /\ hist' = <<>>
               /\ UNCHANGED tx
          ELSE /\ cur' = c
               /\ readRes' = None
               /\ UNCHANGED <<mem, stored, lastWrite>>
               /\ IF MustCommit(mem[seg])
                  THEN SendCommitPage(seg)
                  ELSE SendGetPage(c, tx, <<>>)

\* The host's command arrives while commit_page waits in next_command.
CommitReply(cmd) ==
    /\ side = "device"
    /\ pc \in {"commit_wait1", "commit_wait2"}
    /\ UNCHANGED <<mem, naccess, lastFetch, stored, lastWrite, readRes, manifest>>
    /\ IF ~(cmd.ins = "Continue") \/ <<cmd.p1, cmd.p2>> # <<0, 0>>
       THEN /\ pc' = "error"
            /\ cur' = IdleCur
            /\ hist' = Append(hist, InEvent(cmd))
            /\ UNCHANGED tx
       ELSE IF pc = "commit_wait1"
       THEN /\ tx' = AppendPageContent(cur.seg)
            /\ hist' = Append(hist, InEvent(cmd))
            /\ pc' = "commit_wait2"
            /\ UNCHANGED cur
       ELSE /\ SendGetPage(cur, tx, Append(hist, InEvent(cmd)))
            /\ UNCHANGED cur

\* The host's command arrives while get_page waits for the page.
GetPageReply(cmd) ==
    /\ side = "device"
    /\ pc = "get_wait"
    /\ UNCHANGED <<naccess, manifest, tx>>
    /\ hist' = Append(hist, InEvent(cmd))
    /\ IF ~GetPageReplyOk(cmd)
       THEN /\ pc' = "error"
            /\ cur' = IdleCur
            /\ UNCHANGED <<mem, lastFetch, stored, lastWrite, readRes>>
       ELSE LET fetched == cmd.data \o <<cmd.p1>>
                m == [mem EXCEPT ![cur.seg].page = fetched,
                                 ![cur.seg].idx = Some(cur.page_index)]
            IN /\ lastFetch' = Some([seg |-> cur.seg, idx |-> cur.page_index,
                                     page |-> fetched])
               /\ Complete(m, cur)

\* The code memory is built read-only, the data and stack memories writable.
is_readonly(s) == s = "Code"

\* OutsourcedMemory::new for the three sections; no access has happened yet.
MemInit ==
    /\ mem = [s \in Sections |->
                [idx |-> None, page |-> ZeroPage, is_readonly |-> is_readonly(s)]]
    /\ pc = "idle"
    /\ cur = IdleCur
    /\ tx = <<>>
    /\ hist = <<>>
    /\ naccess = 0
    /\ lastFetch = None
    /\ stored = {}
    /\ lastWrite = None
    /\ readRes = None
    /\ manifest = [s \in Sections |-> root(new(ImageLeaves(s)))]

MemNext ==
    \/ \E addr \in Addresses, kind \in {"read", "write"}, value \in Byte :
          Access(addr, kind, value)
    \/ \E cmd \in Commands : CommitReply(cmd)
    \/ \E cmd \in Commands : GetPageReply(cmd)

\* ------------------------------------- host engine: process_commit_page
MaxCommits == 3

OnesPage == [i \in 1 .. PAGE_SIZE |-> 1]

\* The CommitPage messages the engine may be handed, after deserialization.
CommitPageMessages ==
    [section_kind : Sections, page_index : 0 .. NPages, is_encrypted : BOOLEAN,
     nonce : Byte, data : {ZeroPage, OnesPage}]

\* MemorySegment::store_page: the page replaces the accumulator's leaf.
store_page(acc, page_index, serialized_page) == update(acc, page_index, serialized_page)

NoOutcome == [n |-> 0, status |-> "", section_kind |-> "", new_root |-> None]

process_commit_page(msg) ==
    /\ side = "host"
    /\ host_out.n < MaxCommits
    /\ host_out.status \in {"", "Ok"}
    /\ UNCHANGED memVars
    /\ LET out(st, r) == [n |-> host_out.n + 1, status |-> st,
                          section_kind |-> msg.section_kind, new_root |-> r]
       IN IF msg.section_kind = "Code"
          THEN /\ host_out' = out("AccessViolation", None)
               /\ UNCHANGED host_acc
          ELSE IF ~msg.is_encrypted
          THEN \* assert!(msg.is_encrypted == true)
               /\ host_out' = out("Panic", None)
               /\ UNCHANGED host_acc
          ELSE LET r == store_page(host_acc[msg.section_kind], msg.page_index,
                                   SerializedPage(msg.is_encrypted, msg.nonce, msg.data))
               IN IF ~r.ok
                  THEN /\ host_out' = out("Error", None)
                       /\ UNCHANGED host_acc
                  ELSE /\ host_acc' = [host_acc EXCEPT ![msg.section_kind] = r.acc]
                       /\ host_out' = out("Ok", Some(root(r.acc)))

HostInit ==
    /\ host_acc = [s \in Sections |-> new(ImageLeaves(s))]
    /\ host_out = NoOutcome

\* ------------------------------------------------ properties: page cache
HasCode(frame, c) ==
    \E j \in 1 .. Len(frame) : frame[j].k = "code" /\ frame[j].c = c

HasBytes(frame, b) ==
    \E j \in 1 .. Len(frame) : frame[j].k = "bytes" /\ frame[j].b = b

\* Frame k of the current access went out after an earlier frame had carried
\* the page content and the host had answered that frame with Continue.
ContentAcknowledgedBefore(k) ==
    \E c \in 1 .. (k - 1) :
        /\ hist[c].dir = "out"
        /\ \E j \in 1 .. Len(hist[c].body) : hist[c].body[j].k = "bytes"
        /\ \E a \in (c + 1) .. (k - 1) : hist[a].dir = "in" /\ hist[a].ins = "Continue"

\* C1: a writable section's cache holds at most one page, and when the cached
\* page is replaced, the GetPage for the new page leaves only after a CommitPage
\* frame with the old page's content went out and was answered with Continue.
C1_CommitAcknowledgedBeforeGetPage ==
    \A k \in 1 .. Len(hist) :
        (/\ hist[k].dir = "out"
         /\ HasCode(hist[k].body, "GetPage")
         /\ HasCode(hist[1].body, "CommitPage"))
        => (/\ ContentAcknowledgedBefore(k)
            /\ hist[k].body = <<CodeItem("GetPage"), U32Item(cur.page_index)>>)

\* C2: a page taken from a GetPage reply is the page the section's root commits
\* to (here for the code section, whose root is the manifest's for ever): its
\* inclusion proof verifies against that root.
C2_FetchedPageVerified ==
    (lastFetch # None /\ lastFetch[1].seg = "Code")
    => verify_inclusion_proof(
           manifest["Code"],
           prove(new(ImageLeaves("Code")), lastFetch[1].idx).proof,
           SerializedPage(FALSE, 0, lastFetch[1].page),
           lastFetch[1].idx, NPages)

C4_ReadReturnsLastWrite ==
    (readRes # None /\ lastWrite # None /\ readRes[1][1] = lastWrite[1][1])
    => readRes[1][2] = lastWrite[1][2]

\* C5: every CommitPage frame carries the encryption flag, set, and a nonce,
\* and no frame sent by the device carries the plaintext of a writable page:
\* while the evicted page is still in the cache, no frame of the access holds
\* its bytes.
C5_CommitPageEncrypted ==
    /\ \A k \in 1 .. Len(hist) :
           (hist[k].dir = "out" /\ HasCode(hist[k].body, "CommitPage"))
           => \E i, j \in 1 .. Len(hist[k].body) :
                  /\ hist[k].body[i].k = "is_encrypted" /\ hist[k].body[i].n = 1
                  /\ hist[k].body[j].k = "nonce"
    /\ (pc = "get_wait" /\ ~mem[cur.seg].is_readonly)
       => \A k \in 1 .. Len(hist) :
              hist[k].dir = "out" => ~HasBytes(hist[k].body, mem[cur.seg].page)

C6_State ==
    /\ "Code" \notin stored
    /\ (cur.kind = "write" /\ contains("Code", cur.addr)) => pc = "error"
    /\ mem["Code"].is_readonly
    /\ pc \in {"commit_wait1", "commit_wait2"} => cur.seg \in {"Data", "Stack"}
    /\ host_acc["Code"] = new(ImageLeaves("Code"))
    /\ host_out.section_kind = "Code" => host_out.status = "AccessViolation"

C6_Step ==
    (host_out'.n # host_out.n /\ host_out'.section_kind = "Code")
    => host_acc' = host_acc

\* C6: code pages never change: a store to a code address ends the run with an
\* error and writes nothing, the device never starts a CommitPage for the
\* read-only section, and the host answers a CommitPage naming Code with
\* AccessViolation and leaves every accumulator as it was.
C6_CodePagesNeverChange == [](C6_State) /\ [][C6_Step]_vars

\* A code page is in the cache, a writable page has been written, and a store
\* to a code address has just ended the run.
C6_Witness ==
    /\ pc = "error"
    /\ cur.kind = "write"
    /\ contains("Code", cur.addr)
    /\ mem["Code"].idx # None
    /\ stored # {}

\* C7: whenever the host answers an InterruptedExecution with anything other
\* than Continue with p1 = 0 and p2 = 0, the waiting operation fails.
C7_OnlyContinue00Accepted ==
    \A k \in 1 .. Len(hist) :
        (hist[k].dir = "in" /\ ~IsContinue00(hist[k])) => pc = "error"

\* ------------------------------------------------ buffer transport: xrecv
\* Bytes in the guest segment that holds the receive buffer.
GSize == 3
\* Longest message a caller passes to send_message.
MaxMsgLen == 2
\* xrecv calls per run.
MaxCalls == 1
\* Bytes of a big-endian u32 on the wire.
U32Len == 4
\* Bytes after the u32 in the longest command the host sends.
MaxContent == 1
\* Distinct messages the worker accepts per run.
MaxSends == 2

Radix == Cardinality(Byte)
U32Modulus == Radix * Radix * Radix * Radix

\* u32::to_be_bytes / u32::from_be_bytes, with Byte as the digit set.
to_be_bytes(n) ==
    <<(n \div (Radix * Radix * Radix)) % Radix, (n \div (Radix * Radix)) % Radix,
      (n \div Radix) % Radix, n % Radix>>
from_be_bytes(b) ==
    ((b[1] * Radix + b[2]) * Radix + b[3]) * Radix + b[4]

SeqsUpTo(n) == UNION {[1 .. k -> Byte] : k \in 0 .. n}
Messages == SeqsUpTo(MaxMsgLen)

\* serialize with the length that remains after the chunk.
ReceiveBufferResponse_serialize_after(remaining_length, content) ==
    to_be_bytes(remaining_length - Len(content)) \o content

\* ReceiveBufferResponse: serialize and deserialize.
ReceiveBufferResponse_serialize(remaining_length, content) ==
    to_be_bytes(remaining_length) \o content

\* deserialize without the comparison of the content with remaining_length.
ReceiveBufferResponse_deserialize_any_length(data) ==
    IF Len(data) < U32Len
    THEN [ok |-> FALSE, remaining_length |-> 0, content |-> <<>>]
    ELSE [ok |-> TRUE, remaining_length |-> from_be_bytes(SubSeq(data, 1, U32Len)),
          content |-> SubSeq(data, U32Len + 1, Len(data))]

ReceiveBufferResponse_deserialize(data) ==
    IF Len(data) < U32Len
    THEN [ok |-> FALSE, remaining_length |-> 0, content |-> <<>>]
    ELSE LET remaining_length == from_be_bytes(SubSeq(data, 1, U32Len)) IN
         IF Len(data) - U32Len > remaining_length
         THEN [ok |-> FALSE, remaining_length |-> 0, content |-> <<>>]
         ELSE [ok |-> TRUE, remaining_length |-> remaining_length,
               content |-> SubSeq(data, U32Len + 1, Len(data))]

\* ReceiveBufferResponse::max_chunk_size: content bytes that fit in one command.
max_chunk_size == MaxContent

Min(a, b) == IF a < b THEN a ELSE b

NoWire == [to |-> "", ins |-> "", p1 |-> 0, p2 |-> 0, data |-> <<>>]
\* The device's ReceiveBufferMessage, sent with InterruptedExecution.
ReceiveBufferFrame == [to |-> "host", ins |-> "ReceiveBuffer", p1 |-> 0, p2 |-> 0, data |-> <<>>]
\* The device's final status after a failed ECALL.
RuntimeErrorFrame == [to |-> "host", ins |-> "VMRuntimeError", p1 |-> 0, p2 |-> 0, data |-> <<>>]
\* apdu_continue(data)
apdu_continue(data) == [to |-> "device", ins |-> "Continue", p1 |-> 0, p2 |-> 0, data |-> data]

IdleRx ==
    [pc |-> "idle", buffer |-> 0, max_size |-> 0, g_ptr |-> 0, remaining_length |-> None,
     total_received |-> 0, ret |-> 0, declared |-> None, calls |-> 0]
IdleEng == [pc |-> "step", bytes |-> <<>>, remaining_len |-> 0, offset |-> 0, served |-> None]

\* Cpu::get_segment: the guest segment holding the address, if any.
get_segment_ok(g_ptr) == g_ptr >= 0 /\ g_ptr < GSize

\* MemorySegment::write_buffer: the bytes land at g_ptr, inside the segment.
write_buffer_ok(g_ptr, content) == g_ptr + Len(content) <= GSize
write_buffer(m, g_ptr, content) ==
    [a \in DOMAIN m |->
        IF a >= g_ptr /\ a < g_ptr + Len(content) THEN content[a - g_ptr + 1] ELSE m[a]]

\* ECALL xrecv: handle_xrecv up to its first exchange with the host.
handle_xrecv(buffer, max_size) ==
    /\ rx.pc \in {"idle", "done"}
    /\ rx.calls < MaxCalls
    /\ rwire.to = ""
    /\ written' = {}
    /\ UNCHANGED <<peer, gmem, eng, pending_receive_buffer, pending_response, sent>>
    /\ LET call == [IdleRx EXCEPT !.buffer = buffer, !.max_size = max_size,
                                  !.g_ptr = buffer, !.calls = rx.calls + 1]
       IN IF ~get_segment_ok(buffer)
          THEN /\ rx' = [call EXCEPT !.pc = "error"]
               /\ rwire' = RuntimeErrorFrame
          ELSE /\ rx' = [call EXCEPT !.pc = "wait"]
               /\ rwire' = ReceiveBufferFrame

\* handle_xrecv: one turn of its loop, from the host's command to the next
\* ReceiveBufferMessage or to the return.
handle_xrecv_reply ==
    /\ rx.pc = "wait"
    /\ rwire.to = "device"
    /\ UNCHANGED <<peer, eng, pending_receive_buffer, pending_response, sent>>
    /\ LET response == ReceiveBufferResponse_deserialize(rwire.data)
           first == rx.remaining_length = None
           remaining == IF first THEN response.remaining_length ELSE rx.remaining_length[1]
           n == Len(response.content)
           left == (remaining - n) % U32Modulus
           fail(declared) ==
               /\ rx' = [rx EXCEPT !.pc = "error", !.declared = declared]
               /\ rwire' = RuntimeErrorFrame
               /\ UNCHANGED <<gmem, written>>
       IN IF rwire.ins # "Continue" \/ <<rwire.p1, rwire.p2>> # <<0, 0>> \/ ~response.ok
          THEN fail(rx.declared)
          ELSE IF first /\ response.remaining_length > rx.max_size
          THEN fail(Some(response.remaining_length))
          ELSE IF ~first /\ remaining # response.remaining_length
          THEN fail(rx.declared)
          ELSE IF ~write_buffer_ok(rx.g_ptr, response.content)
          THEN fail(IF first THEN Some(response.remaining_length) ELSE rx.declared)
          ELSE /\ gmem' = write_buffer(gmem, rx.g_ptr, response.content)
               /\ written' = written \cup {a \in 0 .. (GSize + MaxContent) :
                                              a >= rx.g_ptr /\ a < rx.g_ptr + n}
               /\ rx' = [rx EXCEPT !.remaining_length = Some(left),
                                   !.g_ptr = rx.g_ptr + n,
                                   !.total_received = rx.total_received + n,
                                   !.declared = IF first THEN Some(response.remaining_length)
                                                ELSE rx.declared,
                                   !.pc = IF left = 0 THEN "done" ELSE "wait",
                                   !.ret = IF left = 0 THEN rx.total_received + n ELSE 0]
               /\ rwire' = IF left = 0 THEN NoWire ELSE ReceiveBufferFrame

\* chunk_of that ignores the offset.
chunk_of_from_start(bytes, offset, chunk_len) == SubSeq(bytes, 1, chunk_len)

\* process_receive_buffer, lines 589-592: the chunk sent in one command.
chunk_of(bytes, offset, chunk_len) == SubSeq(bytes, offset + 1, offset + chunk_len)

\* process_receive_buffer: one turn of its loop, sending the next chunk.
SendChunk(bytes, remaining_len, offset, served) ==
    LET chunk_len == Min(remaining_len, max_chunk_size)
        data == ReceiveBufferResponse_serialize(remaining_len, chunk_of(bytes, offset, chunk_len))
    IN /\ rwire' = apdu_continue(data)
       /\ eng' = [pc |-> IF remaining_len - chunk_len = 0 THEN "step" ELSE "streaming",
                  bytes |-> IF remaining_len - chunk_len = 0 THEN <<>> ELSE bytes,
                  remaining_len |-> remaining_len - chunk_len,
                  offset |-> IF remaining_len - chunk_len = 0 THEN 0 ELSE offset + chunk_len,
                  served |-> served]

\* VAppEngine::step on the device's answer: a final VMRuntimeError ends the
\* engine; a ReceiveBuffer request is served by process_receive_buffer, up to
\* its first command.
step ==
    /\ peer = "engine"
    /\ eng.pc = "step"
    /\ rwire.to = "host"
    /\ UNCHANGED <<peer, gmem, written, rx, pending_response, sent>>
    /\ IF rwire.ins = "VMRuntimeError"
       THEN /\ eng' = [eng EXCEPT !.pc = "error"]
            /\ rwire' = NoWire
            /\ UNCHANGED pending_receive_buffer
       ELSE IF pending_receive_buffer = None
       THEN /\ rwire' = apdu_continue(ReceiveBufferResponse_serialize(0, <<>>))
            /\ eng' = [eng EXCEPT !.served = None]
            /\ UNCHANGED pending_receive_buffer
       ELSE /\ pending_receive_buffer' = None
            /\ SendChunk(pending_receive_buffer[1], Len(pending_receive_buffer[1]), 0,
                         pending_receive_buffer)

\* process_receive_buffer between two chunks: the device must have asked again.
process_receive_buffer_next ==
    /\ peer = "engine"
    /\ eng.pc = "streaming"
    /\ rwire.to = "host"
    /\ UNCHANGED <<peer, gmem, written, rx, pending_receive_buffer, pending_response, sent>>
    /\ IF rwire.ins # "ReceiveBuffer"
       THEN /\ eng' = [eng EXCEPT !.pc = "error"]
            /\ rwire' = NoWire
       ELSE SendChunk(eng.bytes, eng.remaining_len, eng.offset, eng.served)

\* worker_loop: a SendMessage request is accepted when no caller is waiting.
worker_send_message(data) ==
    /\ peer = "engine"
    /\ eng.pc = "step"
    /\ ~pending_response
    /\ Cardinality(sent) < MaxSends
    /\ pending_receive_buffer' = Some(data)
    /\ pending_response' = TRUE
    /\ sent' = sent \cup {data}
    /\ UNCHANGED <<peer, gmem, written, rx, rwire, eng>>

\* worker_loop: the guest's answer (an xsend outside any xrecv) reaches the
\* waiting caller.
worker_message_response ==
    /\ peer = "engine"
    /\ eng.pc = "step"
    /\ pending_response
    /\ rx.pc \in {"idle", "done"}
    /\ pending_response' = FALSE
    /\ UNCHANGED <<peer, gmem, written, rx, rwire, eng, pending_receive_buffer, sent>>

\* A host that answers a ReceiveBuffer request with any command.
AnyCommands ==
    {apdu_continue(d) : d \in SeqsUpTo(U32Len + MaxContent)}
    \cup {[apdu_continue(<<>>) EXCEPT !.p1 = 1], [apdu_continue(<<>>) EXCEPT !.p2 = 1],
          [apdu_continue(<<>>) EXCEPT !.ins = "GetAppInfo"]}

host_any_reply(cmd) ==
    /\ peer = "any"
    /\ rwire.to = "host"
    /\ rwire.ins = "ReceiveBuffer"
    /\ rwire' = cmd
    /\ UNCHANGED <<peer, gmem, written, rx, eng, pending_receive_buffer, pending_response, sent>>

RecvInit ==
    /\ gmem = [a \in 0 .. (GSize - 1) |-> 0]
    /\ written = {}
    /\ rx = IdleRx
    /\ rwire = NoWire
    /\ eng = IdleEng
    /\ pending_receive_buffer = None
    /\ pending_response = FALSE
    /\ sent = {}

RecvNext ==
    \/ \E buffer \in {0, 1, GSize}, max_size \in 0 .. GSize : handle_xrecv(buffer, max_size)
    \/ handle_xrecv_reply
    \/ step
    \/ process_receive_buffer_next
    \/ \E data \in Messages : worker_send_message(data)
    \/ worker_message_response
    \/ \E cmd \in AnyCommands : host_any_reply(cmd)

\* ------------------------------------------------ buffer transport: xsend
\* xsend calls, and buffers handed over by the host, per run.
MaxXsends == 2
\* Data bytes per frame (255 - 4 in handle_xsend, scaled down).
XsendChunk == 2

BufferTypes == {"VAppMessage", "Panic", "Print"}
TypeItem(t) == [k |-> "type", c |-> t, n |-> 0, b |-> <<>>]

\* ecall.rs, SendBufferMessage::new(size, buffer).serialize_to_comm: the
\* command code, the remaining size and the data.
SendBufferMessage_serialize(total_remaining_size, data) ==
    <<CodeItem("SendBuffer"), U32Item(total_remaining_size), BytesItem(data)>>

\* The host's SendBufferMessage::deserialize: command code, BufferType tag,
\* total length, first chunk.
SendBufferMessage_deserialize(frame) ==
    IF /\ Len(frame) = 4
       /\ frame[1] = CodeItem("SendBuffer")
       /\ frame[2].k = "type" /\ frame[2].c \in BufferTypes
       /\ frame[3].k = "u32"
       /\ frame[4].k = "bytes"
    THEN [ok |-> TRUE, buffer_type |-> frame[2].c, total_size |-> frame[3].n,
          data |-> frame[4].b]
    ELSE [ok |-> FALSE, buffer_type |-> "", total_size |-> 0, data |-> <<>>]

\* The host's SendBufferContinuedMessage::deserialize: command code and chunk.
SendBufferContinuedMessage_deserialize(frame) ==
    IF /\ Len(frame) = 2
       /\ frame[1] = CodeItem("SendBufferContinued")
       /\ frame[2].k = "bytes"
    THEN [ok |-> TRUE, data |-> frame[2].b]
    ELSE [ok |-> FALSE, data |-> <<>>]

NoFrame == [to |-> "", status |-> "", frame |-> <<>>, ins |-> "", p1 |-> 0, p2 |-> 0]
\* comm.reply(InterruptedExecution) with the serialized message.
Interrupted(frame) ==
    [to |-> "host", status |-> "InterruptedExecution", frame |-> frame,
     ins |-> "", p1 |-> 0, p2 |-> 0]
\* The device's final status after a failed ECALL.
RuntimeError ==
    [to |-> "host", status |-> "VMRuntimeError", frame |-> <<>>, ins |-> "", p1 |-> 0, p2 |-> 0]
ContinueCommand(p1, p2) ==
    [to |-> "device", status |-> "", frame |-> <<>>, ins |-> "Continue", p1 |-> p1, p2 |-> p2]

IdleXs == [pc |-> "idle", size |-> 0, g_ptr |-> 0, copy_size |-> 0, bytes |-> <<>>, calls |-> 0]
IdleHs == [pc |-> "step", buffer_type |-> "", buf |-> <<>>, remaining_len |-> 0, over |-> FALSE]

\* MemorySegment::read_buffer: the bytes at g_ptr, inside the segment.
read_buffer_ok(g_ptr, n) == g_ptr + n <= GSize
read_buffer(g_ptr, n) == [i \in 1 .. n |-> gmem[g_ptr + i - 1]]

\* handle_xsend: one turn of its loop up to the exchange with the host.
SendNextChunk(x) ==
    LET copy_size == Min(x.size, XsendChunk) IN
    IF ~read_buffer_ok(x.g_ptr, copy_size)
    THEN /\ xs' = [x EXCEPT !.pc = "error"]
         /\ swire' = RuntimeError
    ELSE /\ xs' = [x EXCEPT !.pc = "wait", !.copy_size = copy_size]
         /\ swire' = Interrupted(SendBufferMessage_serialize(
                                     x.size, read_buffer(x.g_ptr, copy_size)))

\* ECALL xsend: handle_xsend up to its first exchange with the host.
handle_xsend(buffer, size) ==
    /\ sender = "device"
    /\ xs.pc \in {"idle", "done"}
    /\ xs.calls < MaxXsends
    /\ swire.to = ""
    /\ UNCHANGED <<sender, hs, handed>>
    /\ LET call == [IdleXs EXCEPT !.size = size, !.g_ptr = buffer, !.calls = xs.calls + 1,
                                  !.bytes = IF read_buffer_ok(buffer, size)
                                            THEN read_buffer(buffer, size) ELSE <<>>]
       IN IF size = 0
          THEN /\ xs' = [call EXCEPT !.pc = "wait"]
               /\ swire' = Interrupted(SendBufferMessage_serialize(0, <<>>))
          ELSE IF buffer + size >= U32Modulus \/ ~get_segment_ok(buffer)
          THEN /\ xs' = [call EXCEPT !.pc = "error"]
               /\ swire' = RuntimeError
          ELSE SendNextChunk(call)

\* handle_xsend after the host's command: the next chunk, or the return.
handle_xsend_reply ==
    /\ sender = "device"
    /\ xs.pc = "wait"
    /\ swire.to = "device"
    /\ UNCHANGED <<sender, hs, handed>>
    /\ IF swire.ins # "Continue" \/ <<swire.p1, swire.p2>> # <<0, 0>>
       THEN /\ xs' = [xs EXCEPT !.pc = "error"]
            /\ swire' = RuntimeError
       ELSE LET x == [xs EXCEPT !.size = xs.size - xs.copy_size,
                                !.g_ptr = xs.g_ptr + xs.copy_size]
            IN IF x.size > 0
               THEN SendNextChunk(x)
               ELSE /\ xs' = [x EXCEPT !.pc = "done"]
                    /\ swire' = NoFrame

\* process_send_buffer, after process_send_buffer_generic returned: the buffer
\* goes to the caller (or the print writer) and the device is told to go on.
HandOver(buffer_type, buf, over) ==
    /\ handed' = Append(handed, [buffer_type |-> buffer_type, buf |-> buf])
    /\ hs' = [IdleHs EXCEPT !.over = over]
    /\ swire' = ContinueCommand(0, 0)

HostFail(over) ==
    /\ hs' = [hs EXCEPT !.pc = "error", !.over = over]
    /\ swire' = NoFrame
    /\ UNCHANGED handed

\* VAppEngine::step on the device's answer, and process_send_buffer_generic up
\* to its first exchange.
process_send_buffer ==
    /\ sender \in {"device", "any"}
    /\ peer = "engine"
    /\ hs.pc = "step"
    /\ swire.to = "host"
    /\ UNCHANGED <<sender, xs>>
    /\ LET msg == SendBufferMessage_deserialize(swire.frame)
           over == Len(msg.data) > msg.total_size
       IN IF swire.status # "InterruptedExecution" \/ swire.frame = <<>> \/ ~msg.ok
          THEN HostFail(FALSE)
          ELSE IF over
          THEN HostFail(TRUE)
          ELSE IF msg.total_size - Len(msg.data) = 0
          THEN HandOver(msg.buffer_type, msg.data, FALSE)
          ELSE /\ hs' = [pc |-> "more", buffer_type |-> msg.buffer_type, buf |-> msg.data,
                         remaining_len |-> msg.total_size - Len(msg.data), over |-> FALSE]
               /\ swire' = ContinueCommand(0, 0)
               /\ UNCHANGED handed

\* process_send_buffer_generic: one turn of its loop.
process_send_buffer_generic_next ==
    /\ peer = "engine"
    /\ hs.pc = "more"
    /\ swire.to = "host"
    /\ UNCHANGED <<sender, xs>>
    /\ LET msg == SendBufferContinuedMessage_deserialize(swire.frame)
           over == Len(msg.data) > hs.remaining_len
       IN IF swire.status # "InterruptedExecution" \/ swire.frame = <<>> \/ ~msg.ok
          THEN HostFail(FALSE)
          ELSE IF over
          THEN HostFail(TRUE)
          ELSE IF hs.remaining_len - Len(msg.data) = 0
          THEN HandOver(hs.buffer_type, hs.buf \o msg.data, FALSE)
          ELSE /\ hs' = [hs EXCEPT !.buf = hs.buf \o msg.data,
                                   !.remaining_len = hs.remaining_len - Len(msg.data),
                                   !.over = FALSE]
               /\ swire' = ContinueCommand(0, 0)
               /\ UNCHANGED handed

\* A device that sends the host any frame.
AnyFrames ==
    {<<CodeItem("SendBuffer"), TypeItem(t), U32Item(n), BytesItem(d)>> :
        t \in {"VAppMessage", "Print"}, n \in 0 .. MaxMsgLen, d \in SeqsUpTo(XsendChunk)}
    \cup {<<CodeItem("SendBufferContinued"), BytesItem(d)>> : d \in SeqsUpTo(XsendChunk)}
    \cup {SendBufferMessage_serialize(n, <<>>) : n \in 0 .. 1}

any_send_frame(frame) ==
    /\ sender = "any"
    /\ swire.to \in {"", "device"}
    /\ hs.pc \in {"step", "more"}
    /\ Len(handed) < MaxXsends
    /\ swire' = Interrupted(frame)
    /\ UNCHANGED <<sender, xs, hs, handed>>

\* A host that answers the device's frame with any command.
any_continue(ins, p1, p2) ==
    /\ sender = "device"
    /\ peer = "any"
    /\ swire.to = "host"
    /\ swire.status = "InterruptedExecution"
    /\ swire' = [ContinueCommand(p1, p2) EXCEPT !.ins = ins]
    /\ UNCHANGED <<sender, xs, hs, handed>>

SendInit ==
    /\ xs = IdleXs
    /\ swire = NoFrame
    /\ hs = IdleHs
    /\ handed = <<>>

SendNext ==
    \/ \E buffer \in 0 .. GSize, size \in (0 .. GSize) \cup {U32Modulus - 1} :
          handle_xsend(buffer, size)
    \/ handle_xsend_reply
    \/ process_send_buffer
    \/ process_send_buffer_generic_next
    \/ \E frame \in AnyFrames : any_send_frame(frame)
    \/ \E ins \in Instructions, p1 \in Byte, p2 \in Byte : any_continue(ins, p1, p2)

\* ---------------------------------------------------- properties: xrecv
\* The completed xrecv wrote exactly the bytes of m, in order, at the buffer,
\* returned their count, and m is a message the worker accepted from a caller.
Delivered(m) ==
    /\ m \in sent
    /\ rx.ret = Len(m)
    /\ written = {rx.buffer + i - 1 : i \in 1 .. Len(m)}
    /\ \A i \in 1 .. Len(m) : gmem[rx.buffer + i - 1] = m[i]

C9_XrecvStaysWithinMaxSize ==
    /\ \A a \in written : a >= rx.buffer /\ a < rx.buffer + rx.max_size
    /\ rx.total_received <= rx.max_size
    /\ rx.pc = "done" => rx.ret <= rx.max_size
    /\ (rx.declared # None /\ rx.declared[1] > rx.max_size)
       => (rx.pc = "error" /\ written = {})

\* Against any host: a call filled its whole buffer in several frames.
C9_Witness ==
    /\ peer = "any"
    /\ rx.pc = "done"
    /\ rx.max_size > MaxContent
    /\ rx.ret = rx.max_size
    /\ Cardinality(written) = rx.max_size

\* The device's side of the count: it asks again while bytes remain and
\* returns when none do.
C12_DeviceLoopsUntilZero ==
    /\ rx.pc = "done" => rx.remaining_length = Some(0)
    /\ (rx.pc = "wait" /\ rx.remaining_length # None) => rx.remaining_length[1] > 0

\* C12: in every ReceiveBuffer reply of the host engine the remaining_length
\* field is the number of message bytes still to send after that frame, the
\* frame's own chunk not counted, and the device asks for frames until the
\* count is zero.
C12_RemainingLengthAfterFrame ==
    /\ (peer = "engine" /\ rwire.to = "device")
       => LET r == ReceiveBufferResponse_deserialize(rwire.data)
          IN r.ok /\ r.remaining_length = eng.remaining_len
    /\ C12_DeviceLoopsUntilZero

\* C12, as the code has it: the remaining_length field counts the message
\* bytes not sent before that frame, the frame's own chunk included; the
\* device subtracts each chunk it receives and asks for frames until its own
\* count is zero, when it has received as many bytes as the first frame
\* announced.
C12_RemainingLengthCountsChunk ==
    /\ (peer = "engine" /\ rwire.to = "device")
       => LET r == ReceiveBufferResponse_deserialize(rwire.data)
          IN r.ok /\ r.remaining_length = eng.remaining_len + Len(r.content)
    /\ C12_DeviceLoopsUntilZero
    /\ (rx.pc \in {"wait", "done"} /\ rx.remaining_length # None)
       => rx.total_received + rx.remaining_length[1] = rx.declared[1]

\* The last frame of a two-frame message is in flight: nothing remains after
\* it, and its field is not zero.
C12_Witness ==
    /\ peer = "engine"
    /\ rwire.to = "device"
    /\ rx.total_received > 0
    /\ eng.remaining_len = 0
    /\ ReceiveBufferResponse_deserialize(rwire.data).remaining_length > 0

\* C39: if the host answers every ReceiveBuffer request, an xrecv that has
\* sent its request returns, with the bytes or with an error, whatever
\* chunks the host chooses, frames with an empty chunk included.
C39_XrecvTerminates == (rx.pc = "wait") ~> (rx.pc \in {"done", "error"})

\* ---------------------------------------------------- properties: xsend
\* C10: for every xsend of L bytes the host hands over exactly one buffer,
\* equal to the L guest bytes in order: the host engine never rejects a frame
\* of a device whose xsend has not failed, every returned xsend has had its
\* bytes handed over, and only a frame carrying more bytes than remain of the
\* declared total is rejected for its length.
C10_HostHandsOverTheSentBytes ==
    /\ (sender = "device" /\ peer = "engine" /\ hs.pc = "error") => xs.pc = "error"
    /\ (sender = "device" /\ peer = "engine" /\ xs.pc = "done")
       => (Len(handed) = xs.calls /\ handed[Len(handed)].buf = xs.bytes)
    /\ hs.over => hs.pc = "error"
    /\ \A i \in 1 .. Len(handed) : Len(handed[i].buf) <= MaxMsgLen

\* --------------------- host engine: buffer transfers and page requests
\* Page requests the device issues during one transfer.
MaxPageRequests == 2
\* Buffer transfers per run.
MaxTransfers == 2
\* Frames and chunks logged per transfer.
MaxLog == 4

SectionItem(s) == [k |-> "section", c |-> s, n |-> 0, b |-> <<>>]
FlagItem(f) == [k |-> "is_encrypted", c |-> "", n |-> IF f THEN 1 ELSE 0, b |-> <<>>]
NonceItem(n) == [k |-> "nonce", c |-> "", n |-> n, b |-> <<>>]
ProofItem(p) == [k |-> "proof", c |-> "", n |-> Len(p), b |-> p]
HashItem(h) == [k |-> "hash", c |-> "", n |-> 0, b |-> <<h>>]

\* GetPageMessage: command code, section kind, page index.
GetPageMessage_serialize(section_kind, page_index) ==
    <<CodeItem("GetPage"), SectionItem(section_kind), U32Item(page_index)>>

GetPageMessage_deserialize(frame) ==
    IF /\ Len(frame) = 3
       /\ frame[1] = CodeItem("GetPage")
       /\ frame[2].k = "section" /\ frame[2].c \in Sections
       /\ frame[3].k = "u32"
    THEN [ok |-> TRUE, section_kind |-> frame[2].c, page_index |-> frame[3].n]
    ELSE [ok |-> FALSE, section_kind |-> "", page_index |-> 0]

\* CommitPageMessage as process_commit_page reads it: section kind, page
\* index, is_encrypted, nonce and the page content.
CommitPageMessage_serialize(msg) ==
    <<CodeItem("CommitPage"), SectionItem(msg.section_kind), U32Item(msg.page_index),
      FlagItem(msg.is_encrypted), NonceItem(msg.nonce), BytesItem(msg.data)>>

CommitPageMessage_deserialize(frame) ==
    IF /\ Len(frame) = 6
       /\ frame[1] = CodeItem("CommitPage")
       /\ frame[2].k = "section" /\ frame[2].c \in Sections
       /\ frame[3].k = "u32"
       /\ frame[4].k = "is_encrypted"
       /\ frame[5].k = "nonce"
       /\ frame[6].k = "bytes" /\ Len(frame[6].b) = PAGE_SIZE
    THEN [ok |-> TRUE, section_kind |-> frame[2].c, page_index |-> frame[3].n,
          is_encrypted |-> frame[4].n = 1, nonce |-> frame[5].n, data |-> frame[6].b]
    ELSE [ok |-> FALSE, section_kind |-> "", page_index |-> 0,
          is_encrypted |-> FALSE, nonce |-> 0, data |-> <<>>]

\* ReceiveBufferMessage::deserialize: the command code alone.
ReceiveBufferMessage_deserialize(frame) ==
    [ok |-> Len(frame) = 1 /\ frame[1] = CodeItem("ReceiveBuffer")]

\* process_get_page: the page and its proof go back in one command (the
\* proof of a tree of NPages leaves fits one GetPageResponse).
process_get_page(acc, frame) ==
    LET msg == GetPageMessage_deserialize(frame)
        p == IF msg.ok THEN prove(acc[msg.section_kind], msg.page_index)
             ELSE [ok |-> FALSE, proof |-> <<>>]
    IN IF ~msg.ok \/ ~p.ok
       THEN [ok |-> FALSE, acc |-> acc, reply |-> <<>>]
       ELSE LET page == acc[msg.section_kind].data[msg.page_index + 1]
            IN [ok |-> TRUE, acc |-> acc,
                reply |-> <<BytesItem(page.data), FlagItem(page.is_encrypted),
                            NonceItem(page.nonce), ProofItem(p.proof)>>]

\* process_commit_page on a frame: the page is stored and the new root and
\* the proof go back in one command.
process_commit_page_frame(acc, frame) ==
    LET msg == CommitPageMessage_deserialize(frame)
        fail == [ok |-> FALSE, acc |-> acc, reply |-> <<>>]
    IN IF ~msg.ok \/ msg.section_kind = "Code" \/ ~msg.is_encrypted
       THEN fail
       ELSE LET r == store_page(acc[msg.section_kind], msg.page_index,
                                SerializedPage(msg.is_encrypted, msg.nonce, msg.data))
            IN IF ~r.ok
               THEN fail
               ELSE [ok |-> TRUE, acc |-> [acc EXCEPT ![msg.section_kind] = r.acc],
                     reply |-> <<HashItem(root(r.acc)), ProofItem(r.proof)>>]

\* transport.exchange(&apdu_continue(data)) seen from the wire.
HostCommand(reply) == [ContinueCommand(0, 0) EXCEPT !.frame = reply]

\* IsPageRequest that leaves CommitPage to the caller's loop.
IsGetPageRequest(w) ==
    /\ w.status = "InterruptedExecution"
    /\ w.frame # <<>>
    /\ w.frame[1] = CodeItem("GetPage")

IsPageRequest(w) ==
    /\ w.status = "InterruptedExecution"
    /\ w.frame # <<>>
    /\ w.frame[1] \in {CodeItem("GetPage"), CodeItem("CommitPage")}

IdleXf ==
    [pc |-> "step", buffer_type |-> "", buf |-> <<>>, remaining_len |-> 0,
     bytes |-> <<>>, offset |-> 0, pending |-> None, n |-> 0]
NoRes == [kind |-> "", buffer_type |-> "", buf |-> <<>>]
LogEntry(e, frame) == [e |-> e, frame |-> frame]

\* A page request lies between two buffer frames of the transfer.
Interleaved(log) ==
    \E i, j, k \in 1 .. Len(log) :
        /\ i < j /\ j < k
        /\ log[i].e # "page" /\ log[j].e = "page" /\ log[k].e # "page"

\* An engine that answers Continue to what it cannot process.
EngineIgnore ==
    /\ xw' = HostCommand(<<>>)
    /\ UNCHANGED <<host_acc, xf, xlog, xres, xdone>>

\* The engine returns Err: nothing is sent; xw keeps the answer it failed on.
EngineFail ==
    /\ xf' = [xf EXCEPT !.pc = "error"]
    /\ xw' = [xw EXCEPT !.to = "failed"]
    /\ UNCHANGED <<host_acc, xlog, xres, xdone>>

\* GetPage and CommitPage are served where they arrive, and the answer to the
\* reply is looked at again by the same loop.
ServePageRequest ==
    LET r == IF xw.frame[1] = CodeItem("GetPage")
             THEN process_get_page(host_acc, xw.frame)
             ELSE process_commit_page_frame(host_acc, xw.frame)
    IN IF ~r.ok
       THEN EngineFail
       ELSE /\ host_acc' = r.acc
            /\ xw' = HostCommand(r.reply)
            /\ xlog' = Append(xlog, LogEntry("page", xw.frame))
            /\ UNCHANGED <<xf, xres, xdone>>

\* process_receive_buffer is over: the last chunk goes to the device.
CompleteReceive(bytes, log, reply, n) ==
    /\ xf' = [IdleXf EXCEPT !.n = n]
    /\ xw' = HostCommand(reply)
    /\ xlog' = log
    /\ xres' = [kind |-> "recv", buffer_type |-> "", buf |-> bytes]
    /\ xdone' = xdone \cup {[kind |-> "recv", interleaved |-> Interleaved(log)]}
    /\ UNCHANGED host_acc

\* process_receive_buffer: the next chunk goes out; the transfer is over when
\* nothing remains after it.
SendNextReceiveChunk(bytes, remaining_len, offset, log, n) ==
    LET chunk_len == Min(remaining_len, max_chunk_size)
        data == ReceiveBufferResponse_serialize(remaining_len,
                                                chunk_of(bytes, offset, chunk_len))
        reply == <<BytesItem(data)>>
        log2 == Append(log, LogEntry("chunk", reply))
    IN IF remaining_len - chunk_len = 0
       THEN CompleteReceive(bytes, log2, reply, n)
       ELSE /\ xf' = [xf EXCEPT !.pc = "recv", !.bytes = bytes, !.pending = None,
                                !.remaining_len = remaining_len - chunk_len,
                                !.offset = offset + chunk_len, !.n = n]
            /\ xw' = HostCommand(reply)
            /\ xlog' = log2
            /\ xres' = NoRes
            /\ UNCHANGED <<host_acc, xdone>>

\* process_send_buffer_generic after a chunk was taken from a frame: the loop
\* goes on while bytes remain; otherwise process_send_buffer tells the device
\* to go on and waits for its answer before it returns the buffer.
TakeSendChunk(buffer_type, buf, remaining_len, log, n) ==
    /\ xf' = [xf EXCEPT !.pc = IF remaining_len = 0 THEN "after_send" ELSE "send",
                        !.buffer_type = buffer_type, !.buf = buf,
                        !.remaining_len = remaining_len, !.n = n]
    /\ xw' = HostCommand(<<>>)
    /\ xlog' = log
    /\ xres' = NoRes
    /\ UNCHANGED <<host_acc, xdone>>

\* VAppEngine::step: the top-level dispatch on the client command code.
engine_step ==
    /\ xf.pc = "step"
    /\ xw.to = "host"
    /\ UNCHANGED host_out
    /\ IF xw.status = "OK"
       THEN IF Len(xw.frame) = 1 /\ xw.frame[1].k = "bytes" /\ Len(xw.frame[1].b) = U32Len
            THEN \* VAppResponse::Exited with the 4-byte exit code
                 /\ xf' = [xf EXCEPT !.pc = "exited"]
                 /\ xres' = [kind |-> "exit", buffer_type |-> "", buf |-> xw.frame[1].b]
                 /\ xw' = NoFrame
                 /\ UNCHANGED <<host_acc, xlog, xdone>>
            ELSE EngineFail
       ELSE IF xw.status # "InterruptedExecution" \/ xw.frame = <<>>
       THEN EngineFail
       ELSE IF IsPageRequest(xw)
       THEN ServePageRequest
       ELSE IF xw.frame[1] = CodeItem("SendBuffer")
       THEN LET msg == SendBufferMessage_deserialize(xw.frame)
            IN IF ~msg.ok \/ Len(msg.data) > msg.total_size
               THEN EngineFail
               ELSE TakeSendChunk(msg.buffer_type, msg.data, msg.total_size - Len(msg.data),
                                  <<LogEntry("frame", xw.frame)>>, xf.n + 1)
       ELSE IF xw.frame[1] = CodeItem("ReceiveBuffer")
       THEN IF ~ReceiveBufferMessage_deserialize(xw.frame).ok
            THEN EngineFail
            ELSE IF xf.pending = None
            THEN LET reply == <<BytesItem(ReceiveBufferResponse_serialize(0, <<>>))>>
                 IN CompleteReceive(<<>>, <<LogEntry("chunk", reply)>>, reply, xf.n + 1)
            ELSE SendNextReceiveChunk(xf.pending[1], Len(xf.pending[1]), 0, <<>>, xf.n + 1)
       ELSE \* SendBufferContinued, GetPageProofContinued, CommitPageProofContinued,
            \* or no command code at all
            EngineFail

\* exchange_and_process_page_requests inside a transfer: page requests are
\* served, any other answer goes back to the transfer's loop.
exchange_and_process_page_requests ==
    /\ xf.pc \in {"send", "recv", "after_send"}
    /\ xw.to = "host"
    /\ IsPageRequest(xw)
    /\ UNCHANGED host_out
    /\ ServePageRequest

\* process_send_buffer_generic: one turn of its loop on a frame that is not a
\* page request.
send_buffer_continued ==
    /\ xf.pc = "send"
    /\ xw.to = "host"
    /\ ~IsPageRequest(xw)
    /\ UNCHANGED host_out
    /\ LET msg == SendBufferContinuedMessage_deserialize(xw.frame)
       IN IF \/ xw.status # "InterruptedExecution" \/ xw.frame = <<>> \/ ~msg.ok
             \/ Len(msg.data) > xf.remaining_len
          THEN EngineFail
          ELSE TakeSendChunk(xf.buffer_type, xf.buf \o msg.data,
                             xf.remaining_len - Len(msg.data),
                             Append(xlog, LogEntry("frame", xw.frame)), xf.n)

\* process_send_buffer, lines 551-557: the device's answer to the last
\* Continue becomes the current status and the buffer is returned.
process_send_buffer_return ==
    /\ xf.pc = "after_send"
    /\ xw.to = "host"
    /\ ~IsPageRequest(xw)
    /\ xf' = [IdleXf EXCEPT !.pending = xf.pending, !.n = xf.n]
    /\ xres' = [kind |-> "send", buffer_type |-> xf.buffer_type, buf |-> xf.buf]
    /\ xdone' = xdone \cup {[kind |-> "send", interleaved |-> Interleaved(xlog)]}
    /\ UNCHANGED <<hostVars, xw, xlog>>

\* process_receive_buffer: one turn of its loop on a frame that is not a page
\* request.
receive_buffer_again ==
    /\ xf.pc = "recv"
    /\ xw.to = "host"
    /\ ~IsPageRequest(xw)
    /\ UNCHANGED host_out
    /\ IF \/ xw.status # "InterruptedExecution" \/ xw.frame = <<>>
          \/ ~ReceiveBufferMessage_deserialize(xw.frame).ok
       THEN EngineFail
       ELSE SendNextReceiveChunk(xf.bytes, xf.remaining_len, xf.offset, xlog, xf.n)

\* The frames a device may answer with.
DeviceFrames ==
    {GetPageMessage_serialize(s, i) : s \in {"Code", "Data"}, i \in {0, NPages}}
    \cup {<<CodeItem("GetPage"), U32Item(0)>>}
    \cup {CommitPageMessage_serialize(
              [section_kind |-> c[1], page_index |-> c[2], is_encrypted |-> c[3],
               nonce |-> 0, data |-> OnesPage]) :
             c \in {<<"Data", 0, TRUE>>, <<"Code", 0, TRUE>>, <<"Data", 0, FALSE>>,
                    <<"Data", NPages, TRUE>>}}
    \cup {<<CodeItem("SendBuffer"), TypeItem("VAppMessage"), U32Item(n), BytesItem(d)>> :
             n \in 1 .. MaxMsgLen, d \in SeqsUpTo(1)}
    \cup {<<CodeItem("SendBuffer"), TypeItem("Print"), U32Item(1), BytesItem(<<1>>)>>}
    \cup {<<CodeItem("SendBufferContinued"), BytesItem(d)>> : d \in SeqsUpTo(1)}
    \cup {<<CodeItem("ReceiveBuffer")>>, <<CodeItem("GetPageProofContinued")>>,
          <<CodeItem("CommitPageProofContinued")>>}

\* The device's final answer: a status word and its data.
Final(status, data) ==
    [to |-> "host", status |-> status, frame |-> <<BytesItem(data)>>,
     ins |-> "", p1 |-> 0, p2 |-> 0]

PagesIn(log) == Len(SelectSeq(log, LAMBDA x : x.e = "page"))

\* The device answers the host's command with its next frame, or ends the run.
device_frame(w) ==
    /\ xw.to \in {"", "device"}
    /\ xf.pc # "error"
    /\ Len(xlog) < MaxLog \/ (xf.pc = "after_send" /\ ~IsPageRequest(w))
    /\ IsPageRequest(w) => PagesIn(xlog) < MaxPageRequests
    /\ (xf.pc \in {"step", "after_send"} /\ ~IsPageRequest(w)
          /\ w.status = "InterruptedExecution") => xf.n < MaxTransfers
    /\ xw' = w
    /\ UNCHANGED <<hostVars, xf, xlog, xres, xdone>>

XferInit ==
    /\ xf \in {[IdleXf EXCEPT !.pending = p] : p \in {None} \cup {Some(m) : m \in Messages}}
    /\ xw = NoFrame
    /\ xlog = <<>>
    /\ xres = NoRes
    /\ xdone = {}

XferNext ==
    \/ engine_step
    \/ exchange_and_process_page_requests
    \/ send_buffer_continued
    \/ receive_buffer_again
    \/ process_send_buffer_return
    \/ \E frame \in DeviceFrames : device_frame(Interrupted(frame))
    \/ \E w \in {RuntimeError, Final("OK", to_be_bytes(1)), Final("OK", <<>>)} : device_frame(w)

\* ------------------------------------------- host client: send_message
\* send_message calls per run.
MaxCallers == 2
Callers == 1 .. MaxCallers
\* Payloads: one that fits a chunk and one that needs two.
WorkerMessages == {<<1>>, <<0, 1>>}

SendMessage(c, data) == [kind |-> "SendMessage", caller |-> c, data |-> data]
StopVApp == [kind |-> "StopVApp", caller |-> 0, data |-> <<>>]

\* Results of send_message: Ok(bytes) or a VAppExecutionError.
Answer(kind, buf, code, text) == [kind |-> kind, buf |-> buf, code |-> code, text |-> text]
Ok(buf) == Answer("Ok", buf, 0, "")
AppPanicked(msg) == Answer("AppPanicked", msg, 0, "")
AppExited(code) == Answer("AppExited", <<>>, code, "")
Other(text) == Answer("Other", <<>>, 0, text)
VAppNotRunning == Answer("VAppNotRunning", <<>>, 0, "")

\* Option::is_some that never sees a pending response.
is_never_some(o) == FALSE

\* Option::is_some
is_some(o) == o # None

\* A worker that never sees the shutdown signal.
shutdown_ignored(mode) == FALSE

\* worker_loop, line 1370: `shutdown_rx.try_recv().is_ok()`; the task the
\* handle aborts is cancelled at the same points.
shutdown_received(mode) == mode = "shutdown"

\* The worker is between two iterations' steps: the engine is not inside an
\* exchange.
BetweenSteps ==
    /\ xf.pc \in {"step", "error", "exited"}
    /\ xw.to \in {"host", "failed"} \/ ~wengine

\* VanadiumAppClient::send_message: the request goes into the channel.
client_send_message(c, data) ==
    /\ wmode = "worker"
    /\ wanswers[c] = None
    /\ wpending # Some(c)
    /\ \A i \in 1 .. Len(wq) : wq[i].caller # c
    /\ wq' = Append(wq, SendMessage(c, data))
    /\ UNCHANGED <<hostVars, xferVars, wmode, wpending, wengine, wanswers>>

\* VanadiumAppClient::stop_vapp: the request goes into the channel.
client_stop_vapp ==
    /\ wmode = "worker"
    /\ wengine
    /\ \A i \in 1 .. Len(wq) : wq[i].kind # "StopVApp"
    /\ wq' = Append(wq, StopVApp)
    /\ UNCHANGED <<hostVars, xferVars, wmode, wpending, wengine, wanswers>>

\* worker_loop, lines 1375-1437: one message is taken from the channel.
worker_receive ==
    /\ wmode \in {"worker", "shutdown"}
    /\ ~shutdown_received(wmode)
    /\ wq # <<>>
    /\ BetweenSteps
    /\ wq' = Tail(wq)
    /\ UNCHANGED <<hostVars, wmode, xw, xlog, xres, xdone>>
    /\ LET msg == Head(wq)
       IN IF msg.kind = "SendMessage"
          THEN IF is_some(wpending)
               THEN /\ wanswers' = [wanswers EXCEPT ![msg.caller] =
                                       Some(Other("Another message is already pending"))]
                    /\ UNCHANGED <<xf, wpending, wengine>>
               ELSE IF wengine
               THEN /\ xf' = [xf EXCEPT !.pending = Some(msg.data)]
                    /\ wpending' = Some(msg.caller)
                    /\ UNCHANGED <<wengine, wanswers>>
               ELSE /\ wanswers' = [wanswers EXCEPT ![msg.caller] = Some(VAppNotRunning)]
                    /\ UNCHANGED <<xf, wpending, wengine>>
          ELSE \* StopVApp
               /\ wengine' = FALSE
               /\ wpending' = None
               /\ wanswers' = IF wpending = None THEN wanswers
                              ELSE [wanswers EXCEPT ![wpending[1]] =
                                       Some(Other("V-App was stopped"))]
               /\ UNCHANGED xf

\* Drop for VanadiumAppClient: the shutdown signal is sent and the worker
\* task is aborted.
drop_client ==
    /\ wmode = "worker"
    /\ wmode' = "shutdown"
    /\ UNCHANGED <<hostVars, xferVars, wq, wpending, wengine, wanswers>>

\* The callers whose request is in the channel or pending.
Waiting == {wq[i].caller : i \in {j \in 1 .. Len(wq) : wq[j].kind = "SendMessage"}}
               \cup (IF wpending = None THEN {} ELSE {wpending[1]})

\* worker_loop, lines 1369-1372, and the cancellation of the task: the loop
\* ends wherever the worker is, the client with its engine, the channel and
\* pending_response are dropped, and the calls that wait on them return
\* "Worker task died".
worker_shutdown ==
    /\ shutdown_received(wmode)
    /\ wmode' = "stopped"
    /\ wengine' = FALSE
    /\ wpending' = None
    /\ wq' = <<>>
    /\ wanswers' = [c \in Callers |-> IF c \in Waiting THEN Some(Other("Worker task died"))
                                      ELSE wanswers[c]]
    /\ UNCHANGED <<hostVars, xferVars>>

\* SyncVanadiumAppClient::send_message up to the engine's first step: the
\* message is queued for the guest.
sync_send_message(c, data) ==
    /\ wmode = "sync"
    /\ wpending = None
    /\ wanswers[c] = None
    /\ xf.pc = "step"
    /\ xw.to = "host"
    /\ xf' = [xf EXCEPT !.pending = Some(data)]
    /\ wpending' = Some(c)
    /\ UNCHANGED <<hostVars, wmode, wq, wengine, wanswers, xw, xlog, xres, xdone>>

\* What VAppEngine::step returns at the end of this action.
StepReturned ==
    IF xf'.pc = "error" THEN "Err"
    ELSE IF xf'.pc = "exited" THEN "Exited"
    ELSE IF xf.pc = "after_send" /\ xf'.pc = "step"
    THEN IF xf.buffer_type = "Print" THEN "None" ELSE xf.buffer_type
    ELSE "None"

\* The match on the step's result that clears the engine and leaves the
\* pending request where it is.
worker_match_forgetful ==
    LET r == StepReturned
    IN /\ wq' = wq
       /\ wmode' = wmode
       /\ IF r = "None"
          THEN UNCHANGED <<wpending, wengine, wanswers>>
          ELSE IF r = "VAppMessage"
          THEN /\ wpending' = None
               /\ wengine' = TRUE
               /\ wanswers' = IF wpending = None THEN wanswers
                              ELSE [wanswers EXCEPT ![wpending[1]] = Some(Ok(xres'.buf))]
          ELSE /\ wengine' = FALSE
               /\ UNCHANGED <<wpending, wanswers>>

\* worker_loop, lines 1440-1483: the match on the step's result.
worker_match ==
    LET r == StepReturned
        to_pending(a) == IF wpending = None THEN wanswers
                         ELSE [wanswers EXCEPT ![wpending[1]] = Some(a)]
    IN /\ wq' = wq
       /\ wmode' = wmode
       /\ IF r = "None"
          THEN UNCHANGED <<wpending, wengine, wanswers>>
          ELSE /\ wpending' = None
               /\ wengine' = (r = "VAppMessage")
               /\ wanswers' = to_pending(
                      IF r = "VAppMessage" THEN Ok(xres'.buf)
                      ELSE IF r = "Panic" THEN AppPanicked(xres'.buf)
                      ELSE IF r = "Exited" THEN AppExited(from_be_bytes(xres'.buf))
                      ELSE Other("engine error"))

\* VAppEngine::send_message, lines 624-638, under SyncVanadiumAppClient's
\* map_err: the match on the step's result.
send_message_match ==
    LET r == StepReturned
    IN /\ wq' = wq
       /\ wmode' = wmode
       /\ wengine' = wengine
       /\ IF r = "None"
          THEN UNCHANGED <<wpending, wanswers>>
          ELSE /\ wpending' = None
               /\ wanswers' = [wanswers EXCEPT ![wpending[1]] = Some(
                      IF r = "VAppMessage" THEN Ok(xres'.buf)
                      ELSE IF r = "Panic" THEN Other("V-App panicked")
                      ELSE IF r = "Exited" THEN Other("V-App exited")
                      ELSE Other("engine error"))]

\* One piece of VAppEngine::step, of whichever exchange it is in.
EngineAction ==
    \/ engine_step
    \/ exchange_and_process_page_requests
    \/ send_buffer_continued
    \/ receive_buffer_again
    \/ process_send_buffer_return

\* worker_loop steps the engine whenever a V-App is running.
worker_step ==
    /\ wmode \in {"worker", "shutdown"}
    /\ ~shutdown_received(wmode)
    /\ wengine
    /\ EngineAction
    /\ worker_match

\* The sync client steps the engine while a send_message call is in progress.
sync_step ==
    /\ wmode = "sync"
    /\ wpending # None
    /\ EngineAction
    /\ send_message_match

\* The frames and final statuses of a guest that receives a message and
\* answers, panics with a two-frame message, prints, or exits.
GuestFrames ==
    {Interrupted(f) : f \in
        {<<CodeItem("ReceiveBuffer")>>,
         GetPageMessage_serialize("Code", 0),
         <<CodeItem("SendBuffer"), TypeItem("VAppMessage"), U32Item(1), BytesItem(<<1>>)>>,
         <<CodeItem("SendBuffer"), TypeItem("Print"), U32Item(1), BytesItem(<<0>>)>>,
         <<CodeItem("SendBuffer"), TypeItem("Panic"), U32Item(2), BytesItem(<<1>>)>>,
         <<CodeItem("SendBufferContinued"), BytesItem(<<0>>)>>}}
    \cup {Final("OK", to_be_bytes(1)), Final("VAppPanic", <<>>), RuntimeError}

\* The device answers the command in flight (or, first, StartVApp).
guest_frame(w) ==
    /\ wengine
    /\ device_frame(w)
    /\ UNCHANGED workerVars

WorkerInit ==
    /\ wq = <<>>
    /\ wpending = None
    /\ wengine = TRUE
    /\ wanswers = [c \in Callers |-> None]

WorkerNext ==
    \/ \E c \in Callers, data \in WorkerMessages : client_send_message(c, data)
    \/ client_stop_vapp
    \/ worker_receive
    \/ \E c \in Callers, data \in WorkerMessages : sync_send_message(c, data)
    \/ worker_step
    \/ sync_step
    \/ \E w \in GuestFrames : guest_frame(w)
    \/ drop_client
    \/ worker_shutdown

\* --------------------------------------------- device: the command loop
\* Slots of the table (MAX_REGISTERED_VAPPS).
MaxSlots == 2
\* APP_NAME_MAX_LEN and APP_VERSION_MAX_LEN.
MaxNameLen == 2
\* GetCodePageHashesResponse::max_hashes().
MaxBatch == 2
\* Guest instructions per run.
MaxGuestSteps == 2

Slots == 0 .. MaxSlots - 1
NUL == "NUL"
\* Names and versions are sequences of characters.
Names == {<<"a">>, <<"b">>, <<"a", "b">>, <<" ", "a">>}
Versions == {<<"1">>, <<"2">>}
CodePageCounts == {1, 3}
PageHashes == {0, 1}

\* The number of pages rounded up to a power of two.
n_pages_adjusted(n) == CHOOSE p \in {1, 2, 4, 8} : p >= n /\ \A q \in {1, 2, 4, 8} : q >= n => p <= q

\* MerkleAccumulatorRootComputer::root of the hashes fed.
RootOf(hashes) == [root |-> hashes]

\* The hashes of the code pages of an image: all alike, or the first differs.
ImageHashes(n, first) == [i \in 1 .. n_pages_adjusted(n) |-> IF i = 1 THEN first ELSE 0]

\* The roots a manifest may carry for n code pages: of either image, or of
\* the hashes of the unpadded pages alone.
RootsFor(n) ==
    {RootOf(ImageHashes(n, f)) : f \in PageHashes} \cup {RootOf([i \in 1 .. n |-> 0])}

Manifests ==
    UNION {{[vapp_name |-> nm, vapp_version |-> v, n_code_pages |-> n, code_merkle_root |-> r] :
               nm \in Names, v \in Versions, r \in RootsFor(n)} : n \in CodePageCounts}

\* Manifest::validate
validate(m) ==
    /\ Len(m.vapp_name) <= MaxNameLen
    /\ Len(m.vapp_version) <= MaxNameLen
    /\ m.vapp_name = <<>> \/ (m.vapp_name[1] # " " /\ m.vapp_name[Len(m.vapp_name)] # " ")
    /\ m.vapp_version = <<>> \/ (m.vapp_version[1] # " " /\ m.vapp_version[Len(m.vapp_version)] # " ")

\* Manifest::get_vapp_hash
get_vapp_hash(m) == [vapp |-> m]

\* A name copied into a zeroed fixed-size array.
Padded(str) == [i \in 1 .. MaxNameLen |-> IF i <= Len(str) THEN str[i] ELSE NUL]

\* The array up to its first null byte.
UpToNul(arr) ==
    LET nuls == {i \in 1 .. Len(arr) : arr[i] = NUL}
        len == IF nuls = {} THEN Len(arr) ELSE (CHOOSE i \in nuls : \A j \in nuls : i <= j) - 1
    IN SubSeq(arr, 1, len)

\* VAppEntry::empty
VAppEntry_empty == [vapp_hash |-> None, vapp_name |-> Padded(<<>>), vapp_version |-> Padded(<<>>)]

\* VAppEntry::get_app_name
get_app_name(entry) == UpToNul(entry.vapp_name)

\* VAppEntry::get_app_version
get_app_version(entry) == UpToNul(entry.vapp_version)

\* LazyStorage::new
LazyStorage_new == [initialized |-> FALSE, value |-> VAppEntry_empty]

\* VAppStore::find_by_hash that finds every hash.
find_any_hash(store, vapp_hash) == Some(0)

\* VAppStore::find_by_hash
find_by_hash(store, vapp_hash) ==
    LET hits == {i \in Slots : store[i].initialized /\ store[i].value.vapp_hash = Some(vapp_hash)}
    IN IF hits = {} THEN None ELSE Some(CHOOSE i \in hits : \A j \in hits : i <= j)

\* VAppStore::is_registered
is_registered(store, vapp_hash) == find_by_hash(store, vapp_hash) # None

\* VAppStore::find_by_name that finds no name.
find_no_name(store, vapp_name) == None

\* VAppStore::find_by_name
find_by_name(store, vapp_name) ==
    LET hits == {i \in Slots : store[i].initialized /\ get_app_name(store[i].value) = vapp_name}
    IN IF hits = {} THEN None ELSE Some(CHOOSE i \in hits : \A j \in hits : i <= j)

\* The search for a free slot that falls back on the first slot.
first_slot_when_full(store) ==
    LET free == {i \in Slots : ~store[i].initialized}
    IN IF free = {} THEN Some(0) ELSE Some(CHOOSE i \in free : \A j \in free : i <= j)

\* VAppStore::register, lines 160-165: the first uninitialized slot.
first_free_slot(store) ==
    LET free == {i \in Slots : ~store[i].initialized}
    IN IF free = {} THEN None ELSE Some(CHOOSE i \in free : \A j \in free : i <= j)

\* VAppStore::register: the outcome and the table afterwards.
register(store, m) ==
    LET entry == [vapp_hash |-> Some(get_vapp_hash(m)),
                  vapp_name |-> Padded(m.vapp_name),
                  vapp_version |-> Padded(m.vapp_version)]
        existing == find_by_name(store, m.vapp_name)
        slot == first_free_slot(store)
    IN IF Len(m.vapp_name) > MaxNameLen THEN [err |-> "NameTooLong", store |-> store]
       ELSE IF Len(m.vapp_version) > MaxNameLen THEN [err |-> "VersionTooLong", store |-> store]
       ELSE IF existing # None
       THEN [err |-> "", store |-> [store EXCEPT ![existing[1]] = [initialized |-> TRUE, value |-> entry]]]
       ELSE IF slot # None
       THEN [err |-> "",
             store |-> [store EXCEPT ![slot[1]] = [initialized |-> TRUE, value |-> entry]]]
       ELSE [err |-> "StoreFull", store |-> store]

\* A command APDU: header, and the payload already split into what the
\* handlers parse out of it (postcard gives a manifest or fails).
Apdu(ins, p1, p2, m, batch) ==
    [ins |-> ins, p1 |-> p1, p2 |-> p2, manifest |-> m, batch |-> batch]
NoApdu == Apdu(-1, 0, 0, None, <<>>)
\* The INS that starts a preload.
PreloadIns == 4
ContinueIns == 255

\* A response: status word and data; the data of a GetCodePageHashes request
\* is its counter and the encrypted HMACs, every other data is raw bytes.
Response(status, n, hmacs, data) == [status |-> status, n |-> n, hmacs |-> hmacs, data |-> data]
StatusOnly(sw) == Response(sw, 0, <<>>, <<>>)

\* Instruction::try_from
Instruction_try_from(ins, p1, p2) ==
    IF <<ins, p1, p2>> = <<0, 0, 0>> THEN [ok |-> TRUE, v |-> "GetAppInfo"]
    ELSE IF <<ins, p1, p2>> = <<2, 0, 0>> THEN [ok |-> TRUE, v |-> "RegisterVApp"]
    ELSE IF <<ins, p1, p2>> = <<3, 0, 0>> THEN [ok |-> TRUE, v |-> "StartVApp"]
    ELSE IF ins \in {0, 2, 3} THEN [ok |-> FALSE, v |-> "WrongP1P2"]
    ELSE IF ins = ContinueIns THEN [ok |-> TRUE, v |-> "Continue"]
    ELSE [ok |-> FALSE, v |-> "InsNotSupported"]

\* The device at the top of sample_main's loop.
Home == [pc |-> "home", m |-> None, sk |-> <<>>, n_received |-> 0, fed |-> <<>>, exec |-> 0]

\* handle_apdu's arm for Continue, were it to start the V-App.
continue_starts(command) == [sw |-> "InterruptedExecution", run |-> TRUE]

\* handle_apdu's arm for Continue.
continue_at_main_loop(command) == [sw |-> "InsNotSupported", run |-> FALSE]

\* handler_register_vapp that stores the manifest before the review.
handler_register_vapp_unasked(command, approved) ==
    IF command.manifest = None \/ command.batch # <<>> THEN [sw |-> "IncorrectData", store |-> reg]
    ELSE IF ~validate(command.manifest[1]) THEN [sw |-> "IncorrectData", store |-> reg]
    ELSE LET r == register(reg, command.manifest[1])
         IN [sw |-> IF ~approved THEN "Deny"
                    ELSE IF r.err = "" THEN "OK"
                    ELSE IF r.err = "StoreFull" THEN "StoreFull" ELSE "IncorrectData",
             store |-> r.store]

\* handler_register_vapp
handler_register_vapp(command, approved) ==
    IF command.manifest = None \/ command.batch # <<>> THEN [sw |-> "IncorrectData", store |-> reg]
    ELSE IF ~validate(command.manifest[1]) THEN [sw |-> "IncorrectData", store |-> reg]
    ELSE IF ~approved THEN [sw |-> "Deny", store |-> reg]
    ELSE LET r == register(reg, command.manifest[1])
         IN [sw |-> IF r.err = "" THEN "OK"
                    ELSE IF r.err = "StoreFull" THEN "StoreFull" ELSE "IncorrectData",
             store |-> r.store]

\* handler_start_vapp up to the first guest instruction.
handler_start_vapp(command) ==
    IF command.manifest = None \/ command.batch # <<>> THEN "IncorrectData"
    ELSE IF ~is_registered(reg, get_vapp_hash(command.manifest[1])) THEN "SignatureFail"
    ELSE "run"

\* VAppEngine::start: what the host makes of the first status.
engine_start(status) ==
    IF status \notin {"OK", "InterruptedExecution"}
    THEN IF status = "SignatureFail" THEN "AppNotRegistered" ELSE "UnexpectedStatusWord"
    ELSE "Ok"

\* sample_main: one command taken by the main loop and handled up to its
\* response, or up to the point where its handler waits for the host;
\* `approved` is what the user answers if a review is shown.
handle_command(command, approved) ==
    /\ dev.pc = "home"
    /\ dcmd' = command
    /\ LET ins == Instruction_try_from(command.ins, command.p1, command.p2)
       IN IF ~ins.ok
          THEN /\ dout' = <<StatusOnly("DecodingFailed")>>
               /\ dev' = Home
               /\ UNCHANGED reg
               /\ hstart' = ""
          ELSE IF ins.v = "GetAppInfo"
          THEN /\ dout' = <<Response("OK", 0, <<>>, <<1, 1>>)>>
               /\ dev' = Home
               /\ UNCHANGED reg
               /\ hstart' = ""
          ELSE IF ins.v = "RegisterVApp"
          THEN LET r == handler_register_vapp(command, approved)
               IN /\ dout' = <<StatusOnly(r.sw)>>
                  /\ reg' = r.store
                  /\ dev' = Home
                  /\ hstart' = ""
          ELSE IF ins.v = "StartVApp"
          THEN LET r == handler_start_vapp(command)
               IN /\ UNCHANGED reg
                  /\ IF r = "run"
                     THEN /\ dev' = [Home EXCEPT !.pc = "running", !.m = command.manifest]
                          /\ dout' = <<>>
                          /\ hstart' = ""
                     ELSE /\ dev' = Home
                          /\ dout' = <<StatusOnly(r)>>
                          /\ hstart' = engine_start(r)
          ELSE \* Continue
               LET r == continue_at_main_loop(command)
               IN /\ UNCHANGED reg
                  /\ dout' = <<StatusOnly(r.sw)>>
                  /\ dev' = IF r.run THEN [Home EXCEPT !.pc = "vm_wait"] ELSE Home
                  /\ hstart' = ""

\* sample_main: one command handled, whatever the user answers.
handle_apdu(command) == \E approved \in BOOLEAN : handle_command(command, approved)

\* The settings UI's "wipe all": VAppStore::uninstall_all.
uninstall_all ==
    /\ dev.pc = "home"
    /\ reg' = [i \in Slots |-> LazyStorage_new]
    /\ UNCHANGED <<dev, dcmd, dout, hstart>>

\* The VM runs the guest up to its next exchange with the host: an
\* interruption, or the end of the run.
vm_run(ends) ==
    /\ dev.pc = "running"
    /\ dev.exec < MaxGuestSteps
    /\ LET sw == IF ends THEN "OK" ELSE "InterruptedExecution"
       IN /\ dout' = Append(dout, StatusOnly(sw))
          /\ dev' = IF ends THEN [dev EXCEPT !.pc = "home", !.exec = dev.exec + 1]
                    ELSE [dev EXCEPT !.pc = "vm_wait", !.exec = dev.exec + 1]
          /\ hstart' = IF dout = <<>> THEN engine_start(sw) ELSE hstart
    /\ UNCHANGED <<reg, dcmd>>

\* io::interrupt: the command that follows an InterruptedExecution.
interrupt(command) ==
    LET ins == Instruction_try_from(command.ins, command.p1, command.p2)
    IN IF ~ins.ok THEN "InvalidResponse"
       ELSE IF ins.v # "Continue" THEN "UnsupportedInstruction"
       ELSE IF <<command.p1, command.p2>> # <<0, 0>> THEN "WrongParameters"
       ELSE ""

\* The running VM gets the host's answer to its InterruptedExecution.
vm_continue(command) ==
    /\ dev.pc = "vm_wait"
    /\ IF interrupt(command) = ""
       THEN /\ dev' = [dev EXCEPT !.pc = IF dev.exec < MaxGuestSteps THEN "running" ELSE "vm_last"]
            /\ UNCHANGED dout
       ELSE /\ dev' = [dev EXCEPT !.pc = "home"]
            /\ dout' = Append(dout, StatusOnly("VMRuntimeError"))
    /\ UNCHANGED <<reg, dcmd, hstart>>

\* The run's last exchange: the guest exits.
vm_exit ==
    /\ dev.pc = "vm_last"
    /\ dev' = [dev EXCEPT !.pc = "home"]
    /\ dout' = Append(dout, StatusOnly("OK"))
    /\ UNCHANGED <<reg, dcmd, hstart>>

\* -------------------------------------------------- device: preload
SecretKeys == {<<0, 1>>, <<1, 0>>}

\* compute_code_page_hmac under get_vapp_auth_key
compute_code_page_hmac(vapp_hash, i, page_hash) == [vapp_hash |-> vapp_hash, i |-> i, page_hash |-> page_hash]

\* compute_page_hmac_mask
compute_page_hmac_mask(ephemeral_sk, i) == [ephemeral_sk |-> ephemeral_sk, i |-> i]

\* hmac XOR mask
encrypted_hmac(hmac, mask) == [hmac |-> hmac, mask |-> mask]

\* GetCodePageHashes::new(n, hmacs), sent as an InterruptedExecution.
GetCodePageHashes(n, hmacs) == Response("InterruptedExecution", n, hmacs, <<>>)

\* The root check that accepts every root.
any_root(computed_root, code_merkle_root) == TRUE

\* computed_root.0 == manifest.code_merkle_root
root_matches(computed_root, code_merkle_root) == computed_root = code_merkle_root

\* The count check that takes the declared number of pages.
count_declared(n_page_hashes_received, m) == n_page_hashes_received = m.n_code_pages

\* n_page_hashes_received == n_code_pages_rounded
count_matches(n_page_hashes_received, m) ==
    n_page_hashes_received = n_pages_adjusted(m.n_code_pages)

\* handler_preload_vapp, lines 16-46: up to the first request for hashes.
preload_start(command) ==
    /\ dev.pc = "home"
    /\ command.ins = PreloadIns
    /\ dcmd' = command
    /\ hstart' = ""
    /\ UNCHANGED reg
    /\ IF command.manifest = None \/ command.batch # <<>> \/ ~validate(command.manifest[1])
       THEN /\ dev' = Home
            /\ dout' = <<StatusOnly("IncorrectData")>>
       ELSE \E sk \in SecretKeys :
               /\ dev' = [Home EXCEPT !.pc = "preload", !.m = command.manifest, !.sk = sk]
               /\ dout' = <<GetCodePageHashes(0, <<>>)>>

\* The handler's end, lines 102-112, after the empty batch.
preload_finish ==
    IF ~count_matches(dev.n_received, dev.m[1]) THEN StatusOnly("IncorrectData")
    ELSE IF ~root_matches(RootOf(dev.fed), dev.m[1].code_merkle_root) THEN StatusOnly("IncorrectData")
    ELSE Response("OK", 0, <<>>, dev.sk)

\* handler_preload_vapp, lines 43-46 and 61-112: the command that answers
\* a request for hashes, handled up to the next response.
preload_batch(command) ==
    /\ dev.pc = "preload"
    /\ UNCHANGED <<reg, dcmd, hstart>>
    /\ LET m == dev.m[1]
           vapp_hash == get_vapp_hash(m)
           batch == command.batch
           hmacs == [j \in 1 .. Len(batch) |->
                       encrypted_hmac(
                           compute_code_page_hmac(vapp_hash, dev.n_received + j - 1, batch[j]),
                           compute_page_hmac_mask(dev.sk, dev.n_received + j - 1))]
       IN IF interrupt(command) # "" \/ command.manifest # None
          THEN /\ dev' = [dev EXCEPT !.pc = "home"]
               /\ dout' = Append(dout, StatusOnly("IncorrectData"))
          ELSE IF batch = <<>>
          THEN /\ dev' = [dev EXCEPT !.pc = "home"]
               /\ dout' = Append(dout, preload_finish)
          ELSE IF dev.n_received + Len(batch) > n_pages_adjusted(m.n_code_pages)
          THEN /\ dev' = [dev EXCEPT !.pc = "home"]
               /\ dout' = Append(dout, StatusOnly("IncorrectData"))
          ELSE /\ dev' = [dev EXCEPT !.n_received = dev.n_received + Len(batch),
                                     !.fed = dev.fed \o batch]
               /\ dout' = Append(dout, GetCodePageHashes(dev.n_received + Len(batch), hmacs))

\* What the host can send; the main loop is given the manifests of one code
\* page, which differ in name, version and code root.
OnePageManifests == {m \in Manifests : m.n_code_pages = 1}
Batches == UNION {[1 .. k -> PageHashes] : k \in 0 .. MaxBatch}
MainLoopApdus ==
    {Apdu(0, 0, 0, None, <<>>), Apdu(1, 0, 0, None, <<>>), Apdu(2, 1, 0, None, <<>>),
     Apdu(2, 0, 0, None, <<>>), Apdu(3, 0, 0, None, <<>>)}
    \cup {Apdu(i, 0, 0, Some(m), <<>>) : i \in {2, 3}, m \in OnePageManifests}
    \cup {Apdu(2, 0, 0, Some(m), <<0>>) : m \in {x \in OnePageManifests : x.vapp_version = <<"1">>}}
    \cup {Apdu(ContinueIns, p1, 0, None, b) : p1 \in {0, 1}, b \in {<<>>, <<0>>}}
PreloadApdus ==
    {Apdu(PreloadIns, 0, 0, Some(m), <<>>) : m \in Manifests}
    \cup {Apdu(PreloadIns, 0, 0, None, <<>>)}
AnswerApdus ==
    {Apdu(ContinueIns, p1, 0, None, b) : p1 \in {0, 1}, b \in Batches}
    \cup {Apdu(0, 0, 0, None, <<>>)}

DeviceInit ==
    /\ reg = [i \in Slots |-> LazyStorage_new]
    /\ dev = Home
    /\ dcmd = NoApdu
    /\ dout = <<>>
    /\ hstart = ""

DeviceNext ==
    \/ \E command \in MainLoopApdus : handle_apdu(command)
    \/ uninstall_all
    \/ \E ends \in BOOLEAN : vm_run(ends)
    \/ \E command \in AnswerApdus : vm_continue(command)
    \/ vm_exit

PreloadNext ==
    \/ \E command \in PreloadApdus : preload_start(command)
    \/ \E command \in AnswerApdus : preload_batch(command)

\* ------------------------------- properties: transfers and page requests
BufferEntries(log) == SelectSeq(log, LAMBDA x : x.e # "page")
FramesOf(log) == [i \in 1 .. Len(log) |-> log[i].frame]

\* process_send_buffer_generic run on buffer frames alone, with no page
\* request among them.
RECURSIVE SendBufferContinuedRun(_, _)
SendBufferContinuedRun(st, frames) ==
    IF st.status # "more" \/ frames = <<>>
    THEN st
    ELSE LET msg == SendBufferContinuedMessage_deserialize(Head(frames))
         IN IF ~msg.ok \/ Len(msg.data) > st.remaining_len
            THEN [st EXCEPT !.status = "error"]
            ELSE SendBufferContinuedRun(
                     [status |-> IF st.remaining_len - Len(msg.data) = 0
                                 THEN "done" ELSE "more",
                      buffer_type |-> st.buffer_type,
                      buf |-> st.buf \o msg.data,
                      remaining_len |-> st.remaining_len - Len(msg.data)],
                     Tail(frames))

SendBufferRun(frames) ==
    LET msg == SendBufferMessage_deserialize(Head(frames))
    IN IF ~msg.ok \/ Len(msg.data) > msg.total_size
       THEN [status |-> "error", buffer_type |-> "", buf |-> <<>>, remaining_len |-> 0]
       ELSE SendBufferContinuedRun(
                [status |-> IF msg.total_size - Len(msg.data) = 0 THEN "done" ELSE "more",
                 buffer_type |-> msg.buffer_type,
                 buf |-> msg.data,
                 remaining_len |-> msg.total_size - Len(msg.data)],
                Tail(frames))

\* process_receive_buffer run on a message alone: the commands it sends when
\* every answer is a ReceiveBuffer request.
RECURSIVE ReceiveBufferRun(_, _, _)
ReceiveBufferRun(bytes, remaining_len, offset) ==
    LET chunk_len == Min(remaining_len, max_chunk_size)
        reply == <<BytesItem(ReceiveBufferResponse_serialize(
                                 remaining_len, chunk_of(bytes, offset, chunk_len)))>>
    IN IF remaining_len - chunk_len = 0
       THEN <<reply>>
       ELSE <<reply>> \o ReceiveBufferRun(bytes, remaining_len - chunk_len, offset + chunk_len)

\* The page request in flight is one the host can serve.
Servable(frame) ==
    \/ /\ GetPageMessage_deserialize(frame).ok
       /\ GetPageMessage_deserialize(frame).page_index < NPages
    \/ /\ CommitPageMessage_deserialize(frame).ok
       /\ CommitPageMessage_deserialize(frame).section_kind # "Code"
       /\ CommitPageMessage_deserialize(frame).is_encrypted
       /\ CommitPageMessage_deserialize(frame).page_index < NPages

C11_State ==
    LET frames == FramesOf(BufferEntries(xlog))
    IN /\ xf.pc = "send"
          => SendBufferRun(frames) =
                [status |-> "more", buffer_type |-> xf.buffer_type, buf |-> xf.buf,
                 remaining_len |-> xf.remaining_len]
       /\ xf.pc = "after_send"
          => SendBufferRun(frames) =
                [status |-> "done", buffer_type |-> xf.buffer_type, buf |-> xf.buf,
                 remaining_len |-> 0]
       /\ xres.kind = "send"
          => SendBufferRun(frames) =
                [status |-> "done", buffer_type |-> xres.buffer_type, buf |-> xres.buf,
                 remaining_len |-> 0]
       /\ xf.pc = "recv"
          => /\ Len(frames) < Len(ReceiveBufferRun(xf.bytes, Len(xf.bytes), 0))
             /\ frames = SubSeq(ReceiveBufferRun(xf.bytes, Len(xf.bytes), 0), 1, Len(frames))
       /\ xres.kind = "recv"
          => frames = ReceiveBufferRun(xres.buf, Len(xres.buf), 0)

C11_Step ==
    (/\ xf.pc \in {"send", "recv", "after_send"}
     /\ xw.to = "host"
     /\ xw.status = "InterruptedExecution"
     /\ Servable(xw.frame))
    => /\ xf' = xf
       /\ xw'.to = "device"
       /\ xw'.frame # <<>>
       /\ xlog' = Append(xlog, LogEntry("page", xw.frame))

ContinuedCodes ==
    {CodeItem("SendBufferContinued"), CodeItem("GetPageProofContinued"),
     CodeItem("CommitPageProofContinued")}

\* The engine is at the top of VAppEngine::step, outside any exchange.
AtTopLevel(x) == [x EXCEPT !.pc = "step", !.n = 0, !.pending = None] = IdleXf

C15_Step ==
    (/\ xf.pc = "step"
     /\ xw.to = "host"
     /\ xw.status = "InterruptedExecution"
     /\ xw.frame # <<>>
     /\ xw.frame[1] \in ContinuedCodes)
    => /\ xf' = [xf EXCEPT !.pc = "error"]
       /\ xw'.to = "failed"
       /\ UNCHANGED <<host_acc, xlog, xres, xdone>>

\* C15: an InterruptedExecution answer whose code is SendBufferContinued,
\* GetPageProofContinued or CommitPageProofContinued, arriving at the top level
\* of the engine, ends the engine with an error; no command is sent, no page is
\* stored, no buffer is taken or handed over.
C15_ContinuedCodesAtTopLevelFail == [][C15_Step]_vars

\* After a completed transfer, a SendBufferContinued frame with a payload
\* arrived at the top level and the engine failed on it.
C15_Witness ==
    /\ xf.pc = "error"
    /\ AtTopLevel(xf)
    /\ xf.n >= 1
    /\ xw.to = "failed"
    /\ xw.status = "InterruptedExecution"
    /\ xw.frame # <<>>
    /\ xw.frame[1] = CodeItem("SendBufferContinued")
    /\ xw.frame[2].b # <<>>
    /\ xres.kind = "send"

\* The transfer engine at rest, for the behaviours that do not run it.
XferIdle ==
    /\ xf = IdleXf
    /\ xw = NoFrame
    /\ xlog = <<>>
    /\ xres = NoRes
    /\ xdone = {}

\* ------------------------------------------------ properties: send_message
\* The worker takes a SendMessage from the channel while a response is
\* pending.
TakesSecondMessage ==
    /\ wmode = "worker"
    /\ wq # <<>>
    /\ wq' = Tail(wq)
    /\ Head(wq).kind = "SendMessage"
    /\ wpending # None

C13_Step ==
    TakesSecondMessage =>
        /\ Head(wq).caller # wpending[1]
        /\ wanswers' = [wanswers EXCEPT ![Head(wq).caller] =
                           Some(Other("Another message is already pending"))]
        /\ wpending' = wpending
        /\ wengine' = wengine
        /\ xf' = xf
        /\ xw' = xw
        /\ xlog' = xlog

\* C13: a message sent through the worker while an earlier message has not
\* yet received its response is rejected with an error to its caller; the
\* pending request, its caller's (still missing) answer, the message queued
\* for the V-App and the engine are left as they were, so the rejected
\* payload never reaches the V-App.
C13_SecondMessageRejected ==
    /\ [](wpending # None => wanswers[wpending[1]] = None)
    /\ [][C13_Step]_vars

\* A second caller was rejected, and the first one later got the V-App's
\* response.
C13_Witness ==
    \E c, d \in Callers :
        /\ c # d
        /\ wanswers[c] = Some(Other("Another message is already pending"))
        /\ wanswers[d] # None
        /\ wanswers[d][1].kind = "Ok"

\* The run ends in this step, with a request pending.
RunEnds(r) == wpending # None /\ wengine /\ StepReturned = r

\* The bytes of the buffer the guest sent, from the frames on the wire.
SentOnWire == SendBufferRun(FramesOf(BufferEntries(xlog))).buf

C14_Step ==
    \A c \in Callers :
        wpending = Some(c) =>
            /\ RunEnds("Panic") => wanswers'[c] = Some(AppPanicked(SentOnWire))
            /\ RunEnds("Exited") =>
                   wanswers'[c] = Some(AppExited(from_be_bytes(xw.frame[1].b)))
            /\ RunEnds("Err") =>
                   /\ wanswers'[c] # None
                   /\ wanswers'[c][1].kind = "Other"

\* C14: when a run ends while a request is pending, the caller of
\* send_message gets the typed error of the terminal status: AppPanicked with
\* the panic message, AppExited with the exit code, Other for another failure.
C14_TypedErrorMatchesStatus == [][C14_Step]_vars

\* After the signal: the engine is where it was, and the channel, the
\* pending request and the answers change only when the worker stops.
C32_Step ==
    wmode \in {"shutdown", "stopped"} =>
        /\ xf' = xf
        /\ xlog' = xlog
        /\ xres' = xres
        /\ <<wq', wpending', wengine', wanswers'>> # <<wq, wpending, wengine, wanswers>> =>
              /\ wmode = "shutdown"
              /\ wmode' = "stopped"
              /\ \A c \in Callers :
                    wanswers'[c] # wanswers[c] => wanswers'[c] = Some(Other("Worker task died"))

ChannelCapacity == MaxCallers - 1

\* A caller's step: a message is added to the channel.
CallerStep == Len(wq') > Len(wq)

\* C33: callers reach the engine's state only by sending messages over a
\* bounded channel to the worker: the queued messages never exceed the
\* channel's capacity, and a caller's step changes nothing of the engine.
C33_BoundedChannel ==
    /\ [](Len(wq) <= ChannelCapacity)
    /\ [][CallerStep => UNCHANGED <<hostVars, xferVars, wpending, wengine>>]_vars

\* A request leaves pending_response with an answer to its caller, answers
\* are given once, and the step that clears the engine answers the pending
\* request with an error.
C36_Step ==
    \A c \in Callers :
        /\ (wpending = Some(c) /\ wpending' # Some(c)) => wanswers'[c] # None
        /\ wanswers[c] # None => wanswers'[c] = wanswers[c]
        /\ (wpending = Some(c) /\ wengine /\ ~wengine') =>
              /\ wanswers'[c] # None
              /\ wanswers'[c][1].kind \in {"AppPanicked", "AppExited", "Other"}

\* C36: whenever no V-App engine is running, no caller request is pending
\* in the worker; each accepted request is completed exactly once, with the
\* V-App's response or with an error, no later than the step that clears
\* the engine.
C36_NoPendingWithoutEngine ==
    /\ []((wmode # "sync" /\ ~wengine) => wpending = None)
    /\ [](wmode # "sync" => \A c \in Callers : wpending = Some(c) => wanswers[c] = None)
    /\ [][wmode # "sync" => C36_Step]_vars

\* The engine was cleared by the V-App's exit while a request was pending,
\* and its caller has the error.
C36_Witness ==
    /\ wmode = "worker"
    /\ ~wengine
    /\ wpending = None
    /\ \E c \in Callers : wanswers[c] # None /\ wanswers[c][1].kind = "AppExited"

\* The worker accepts a SendMessage: it becomes the pending request and its
\* payload the message queued for the V-App.
AcceptsMessage ==
    /\ wmode = "worker"
    /\ wq # <<>>
    /\ wq' = Tail(wq)
    /\ Head(wq).kind = "SendMessage"
    /\ wpending = None
    /\ wengine

\* C37: a message that the worker accepted and that the V-App has not yet
\* consumed by an xrecv is never overwritten or dropped when a later
\* message is accepted.
C37_AcceptedNotOverwritten == [][AcceptsMessage => xf.pending = None]_vars

\* ------------------------------------------------- properties: the device
\* The device waits for a Continue: an operation is suspended on the host.
WaitsForHost == dev.pc \in {"vm_wait", "preload"}

C16_Step ==
    \A command \in MainLoopApdus :
        (command.ins = ContinueIns /\ handle_apdu(command)) =>
            /\ dout' = <<StatusOnly("InsNotSupported")>>
            /\ reg' = reg
            /\ dev' = Home
            /\ hstart' = ""

\* C16: the device waits for a Continue only right after it emitted an
\* InterruptedExecution; a Continue taken by the main command loop is
\* answered with InsNotSupported alone, and leaves the table of registered
\* V-Apps as it was and the device in the main loop with no run started.
C16_ContinueAtMainLoopRejected ==
    /\ [](WaitsForHost => dout # <<>> /\ dout[Len(dout)].status = "InterruptedExecution")
    /\ [][C16_Step]_vars

\* A Continue was rejected by the main loop of a device with a registered
\* V-App.
C16_Witness ==
    /\ dev.pc = "home"
    /\ dcmd.ins = ContinueIns
    /\ dout = <<StatusOnly("InsNotSupported")>>
    /\ \E i \in Slots : reg[i].initialized

\* Some slot of the table holds the hash of manifest m.
InTable(m) ==
    \E i \in Slots : reg[i].initialized /\ reg[i].value.vapp_hash = Some(get_vapp_hash(m))

\* A V-App is running on the device.
Running == dev.pc \in {"running", "vm_wait", "vm_last"}

C19_Step ==
    \A command \in MainLoopApdus :
        (/\ command.ins = 3
         /\ command.manifest # None
         /\ ~InTable(command.manifest[1])
         /\ handle_apdu(command)) =>
            /\ dout' = <<StatusOnly("SignatureFail")>>
            /\ dev' = Home
            /\ hstart' = "AppNotRegistered"

\* C19: StartVApp with a manifest whose hash is not in the table is answered
\* with SignatureFail alone: no InterruptedExecution is emitted, no guest
\* instruction is executed, and the host's start reports AppNotRegistered; a
\* V-App runs only while its manifest's hash is in the table.
C19_UnregisteredStartRefused ==
    /\ [](hstart = "AppNotRegistered" =>
             /\ dev.exec = 0
             /\ ~Running
             /\ \A i \in 1 .. Len(dout) : dout[i].status = "SignatureFail")
    /\ [](Running => InTable(dev.m[1]))
    /\ [][C19_Step]_vars

\* StartVApp was refused for a manifest whose name is registered with
\* another hash.
C19_Witness ==
    /\ hstart = "AppNotRegistered"
    /\ dcmd.ins = 3
    /\ \E i \in Slots :
          /\ reg[i].initialized
          /\ get_app_name(reg[i].value) = dcmd.manifest[1].vapp_name
          /\ reg[i].value.vapp_hash # Some(get_vapp_hash(dcmd.manifest[1]))

\* The initialized slots whose entry has the name.
NameSlots(store, vapp_name) ==
    {i \in Slots : store[i].initialized /\ get_app_name(store[i].value) = vapp_name}

\* VAppStore::count
count(store) == Cardinality({i \in Slots : store[i].initialized})

\* A registration of a name that is in the table, accepted; `same` says
\* whether a previous hash equal to the new one may stay registered.
Overwrites(command, same) ==
    LET m == command.manifest[1]
        old == {reg[i].value.vapp_hash : i \in NameSlots(reg, m.vapp_name)}
    IN (/\ command.ins = 2
        /\ command.manifest # None
        /\ NameSlots(reg, command.manifest[1].vapp_name) # {}
        /\ handle_apdu(command)
        /\ dout' = <<StatusOnly("OK")>>) =>
           /\ Cardinality(NameSlots(reg', m.vapp_name)) = 1
           /\ \A i \in NameSlots(reg', m.vapp_name) :
                 /\ reg'[i].value.vapp_hash = Some(get_vapp_hash(m))
                 /\ get_app_version(reg'[i].value) = m.vapp_version
           /\ count(reg') = count(reg)
           /\ \A h \in old :
                 (~same \/ h # Some(get_vapp_hash(m))) =>
                     \A i \in Slots : ~(reg'[i].initialized /\ reg'[i].value.vapp_hash = h)

\* No two entries of the table share a name.
NamesUnique ==
    \A i, j \in Slots :
        (i # j /\ reg[i].initialized /\ reg[j].initialized) =>
            get_app_name(reg[i].value) # get_app_name(reg[j].value)

\* C20 as stated: registering a manifest whose name is in the table leaves
\* exactly one entry of that name, with the new hash and version, and as many
\* entries as before, and the hash stored under the name before is no longer
\* registered; no two entries ever share a name.
C20_OverwriteDropsOldHash ==
    /\ []NamesUnique
    /\ [][\A command \in MainLoopApdus : Overwrites(command, FALSE)]_vars

\* C20: the same, except that the hash stored under the name before stays
\* registered when it is the new manifest's own hash (the same manifest
\* registered again).
C20_OverwriteDropsOtherHash ==
    /\ []NamesUnique
    /\ [][\A command \in MainLoopApdus : Overwrites(command, TRUE)]_vars

\* A registration went into slot 0 while a later slot was in use: slots are
\* filled in order, so slot 0 held an entry of that name before.
C20_Witness ==
    /\ dcmd.ins = 2
    /\ dout = <<StatusOnly("OK")>>
    /\ reg[0].initialized
    /\ reg[1].initialized
    /\ reg[0].value.vapp_hash = Some(get_vapp_hash(dcmd.manifest[1]))
    /\ get_app_version(reg[0].value) = <<"2">>

\* A RegisterVApp command whose payload is a manifest and nothing else, and
\* whose manifest is valid.
WellFormedRegistration(command) ==
    /\ command.ins = 2
    /\ <<command.p1, command.p2>> = <<0, 0>>
    /\ command.manifest # None
    /\ command.batch = <<>>
    /\ validate(command.manifest[1])

C21_Step ==
    \A command \in MainLoopApdus :
        (/\ WellFormedRegistration(command)
         /\ count(reg) = MaxSlots
         /\ NameSlots(reg, command.manifest[1].vapp_name) = {}
         /\ handle_command(command, TRUE)) =>
            /\ dout' = <<StatusOnly("StoreFull")>>
            /\ reg' = reg

\* C21: with every slot of the table occupied, an approved registration of
\* a name that is not in the table returns StoreFull and leaves every slot as
\* it was; the table never holds more entries than it has slots.
C21_FullTableRefuses ==
    /\ [](DOMAIN reg = Slots /\ count(reg) <= MaxSlots)
    /\ [][C21_Step]_vars

\* A registration was refused with StoreFull by a full table.
C21_Witness ==
    /\ dcmd.ins = 2
    /\ dout = <<StatusOnly("StoreFull")>>
    /\ count(reg) = MaxSlots
    /\ NameSlots(reg, dcmd.manifest[1].vapp_name) = {}

C22_Step ==
    \A command \in MainLoopApdus :
        \A approved \in BOOLEAN :
            (command.ins = 2 /\ <<command.p1, command.p2>> = <<0, 0>>
                /\ handle_command(command, approved)) =>
                /\ reg' # reg => (WellFormedRegistration(command) /\ approved
                                    /\ dout' = <<StatusOnly("OK")>>)
                /\ (WellFormedRegistration(command) /\ ~approved) =>
                       (dout' = <<StatusOnly("Deny")>> /\ reg' = reg)
                /\ ~WellFormedRegistration(command) =>
                       (dout' = <<StatusOnly("IncorrectData")>> /\ reg' = reg)

PreloadEnded == dcmd.ins = PreloadIns /\ dev.pc = "home" /\ dev.m # None

LastResponse == dout[Len(dout)]

\* The response carries the secret in the clear.
Discloses(resp, sk) == sk # <<>> /\ resp.data = sk

\* C17: a preload whose streamed page hashes give a Merkle root other than
\* manifest.code_merkle_root ends with IncorrectData; a response carries
\* ephemeral_sk only if it is the run's last one, with status OK, sent after
\* the count of hashes and the root were both found right.
C17_SecretOnlyAfterChecks ==
    /\ \A i \in 1 .. Len(dout) :
          Discloses(dout[i], dev.sk) =>
              /\ i = Len(dout)
              /\ dout[i].status = "OK"
              /\ PreloadEnded
              /\ dev.n_received = n_pages_adjusted(dev.m[1].n_code_pages)
              /\ RootOf(dev.fed) = dev.m[1].code_merkle_root
    /\ (PreloadEnded /\ RootOf(dev.fed) # dev.m[1].code_merkle_root) =>
          LastResponse.status = "IncorrectData"

\* The host delivered every hash and then the empty batch, and the root was
\* wrong: the run ended with IncorrectData, after responses with HMACs.
C17_Witness ==
    /\ PreloadEnded
    /\ dev.n_received = n_pages_adjusted(dev.m[1].n_code_pages)
    /\ dev.n_received > 1
    /\ RootOf(dev.fed) # dev.m[1].code_merkle_root
    /\ LastResponse.status = "IncorrectData"
    /\ Len(dout[Len(dout) - 1].hmacs) > 0

\* One answer of the host handled by the preload, against the number of
\* hashes `expected`.
PreloadCounts(command, expected) ==
    LET total == dev.n_received + Len(command.batch)
        sw == dout'[Len(dout')].status
    IN /\ sw = "OK" => (command.batch = <<>> /\ dev.n_received = expected)
       /\ (interrupt(command) = "" /\ command.manifest = None) =>
              /\ total > expected => sw = "IncorrectData"
              /\ (command.batch = <<>> /\ total < expected) => sw = "IncorrectData"

\* C18 as stated: preload succeeds only when the hashes delivered over all
\* batches number exactly manifest.n_code_pages(), and fails with
\* IncorrectData on more and on fewer.
C18_DeclaredCountExactly ==
    [][\A command \in AnswerApdus :
          preload_batch(command) => PreloadCounts(command, dev.m[1].n_code_pages)]_vars

\* C18: preload succeeds only when the hashes delivered over all batches
\* number exactly the manifest's number of code pages rounded up to a power
\* of two; a batch that takes the total above that number, and an end of
\* stream below it, fail with IncorrectData.
C18_AdjustedCountExactly ==
    [][\A command \in AnswerApdus :
          preload_batch(command) =>
              PreloadCounts(command, n_pages_adjusted(dev.m[1].n_code_pages))]_vars

\* A manifest of three code pages was preloaded with four hashes.
C18_Witness ==
    /\ PreloadEnded
    /\ dev.m[1].n_code_pages = 3
    /\ dev.n_received = 4
    /\ LastResponse.status = "OK"

\* ------------------------------------- the accumulator's own interface
\* Leaves of the accumulators the calls below run on.
MaxLeaves == 3
\* Longest co-path handed to a verifier.
MaxProofLen == 2
LeafValues == {0, 1}
Indexes == 0 .. MaxLeaves

get(acc, index) == IF index < Len(acc.data) THEN Some(acc.data[index + 1]) ELSE None

size(acc) == Len(acc.data)

\* verify_update_proof: the co-path must verify the old value against the old
\* root and the new value against the new root.
verify_new_value_only(new_root, update_proof, old_value, new_value, index, n) ==
    verify_inclusion_proof(new_root, update_proof[1], new_value, index, n)

verify_update_proof(new_root, update_proof, old_value, new_value, index, n) ==
    /\ verify_inclusion_proof(update_proof[2], update_proof[1], old_value, index, n)
    /\ verify_inclusion_proof(new_root, update_proof[1], new_value, index, n)

\* Steps of `pos = (pos - 1) / 2` that take a position to the root.
RECURSIVE PathLen(_)
PathLen(pos) == IF pos = 0 THEN 0 ELSE 1 + PathLen((pos - 1) \div 2)

\* verify_inclusion_proof computes `(pos - 1) / 2` once per sibling: with more
\* siblings than the position has ancestors the usize subtraction underflows,
\* which panics in a build with overflow checks and wraps in one without
\* (the wrapped positions stay odd, as the negative ones of FoldProof do).
Underflows(proof, index, n) == Len(proof) > PathLen(n - 1 + index)

Outcomes(proof, index, n, returned) ==
    {IF returned THEN "true" ELSE "false"}
    \cup (IF Underflows(proof, index, n) THEN {"panic"} ELSE {})

NoCall ==
    [op |-> "", index |-> 0, value |-> 0, new_value |-> 0, proof |-> <<>>,
     rt |-> None, old_root |-> None, result |-> ""]

NoUpdate ==
    [some |-> FALSE, index |-> 0, old_value |-> 0, new_value |-> 0,
     proof |-> <<>>, old_root |-> None, new_root |-> None]

\* The hashes a caller can put in a co-path, and the co-paths.
\* The co-paths a caller hands to a verifier: those prove returns, cut short
\* or made longer by one hash.
GenuineProofs(acc) == {prove(acc, i).proof : i \in 0 .. (size(acc) - 1)}
Proofs(acc) ==
    UNION {{SubSeq(q, 1, k) : k \in 0 .. Len(q)} : q \in GenuineProofs(acc)}
    \cup {q \o <<root(acc)>> : q \in {x \in GenuineProofs(acc) : Len(x) < MaxProofLen}}
Roots == {root(ma)} \cup (IF ma_upd.some THEN {ma_upd.old_root} ELSE {})

acc_update(index, value) ==
    LET r == update(ma, index, value) IN
    /\ ma' = r.acc
    /\ ma_upd' = IF r.ok
                 THEN [some |-> TRUE, index |-> index,
                       old_value |-> ma.data[index + 1], new_value |-> value,
                       proof |-> r.proof, old_root |-> r.old_root,
                       new_root |-> root(r.acc)]
                 ELSE ma_upd
    /\ ma_call' = [NoCall EXCEPT !.op = "update", !.index = index, !.value = value,
                                 !.proof = r.proof,
                                 !.result = IF r.ok THEN "ok" ELSE "err"]

acc_prove(index) ==
    LET r == prove(ma, index) IN
    /\ ma_call' = [NoCall EXCEPT !.op = "prove", !.index = index, !.proof = r.proof,
                                 !.result = IF r.ok THEN "ok" ELSE "err"]
    /\ UNCHANGED <<ma, ma_upd>>

acc_verify_inclusion_proof(rt, proof, element, index) ==
    /\ \E result \in Outcomes(proof, index, size(ma),
                              verify_inclusion_proof(rt, proof, element, index, size(ma))) :
          ma_call' = [NoCall EXCEPT !.op = "verify_inclusion_proof", !.index = index,
                                    !.value = element, !.proof = proof,
                                    !.rt = rt, !.result = result]
    /\ UNCHANGED <<ma, ma_upd>>

acc_verify_update_proof(new_root, proof, old_root, old_value, new_value, index) ==
    /\ \E result \in Outcomes(proof, index, size(ma),
                              verify_update_proof(new_root, <<proof, old_root>>,
                                                  old_value, new_value, index, size(ma))) :
          ma_call' = [NoCall EXCEPT !.op = "verify_update_proof", !.index = index,
                                    !.value = old_value, !.new_value = new_value,
                                    !.proof = proof, !.rt = new_root,
                                    !.old_root = old_root, !.result = result]
    /\ UNCHANGED <<ma, ma_upd>>

AccInit ==
    /\ \E n \in 1 .. MaxLeaves : \E data \in [1 .. n -> LeafValues] : ma = new(data)
    /\ ma_upd = NoUpdate
    /\ ma_call = NoCall

AccIdle ==
    /\ ma = new(<<0>>)
    /\ ma_upd = NoUpdate
    /\ ma_call = NoCall

AccNext ==
    \/ \E index \in Indexes, value \in LeafValues : acc_update(index, value)
    \/ \E index \in Indexes : acc_prove(index)
    \/ \E rt \in Roots, proof \in Proofs(ma), element \in LeafValues, index \in Indexes :
          acc_verify_inclusion_proof(rt, proof, element, index)
    \/ /\ ma_upd.some
       /\ \E new_root \in Roots, old_root \in Roots,
             proof \in {ma_upd.proof, prove(ma, 0).proof},
             old_value \in LeafValues, new_value \in LeafValues, index \in Indexes :
             acc_verify_update_proof(new_root, proof, old_root, old_value, new_value, index)

\* ------------------------------------------- properties: accumulator
\* The last call was `op` and it returned.
Called(op) == ma_call.op = op /\ ma_call.result # "panic"

\* The last call verified the co-path that prove returns for its index, with
\* the leaf stored there, against the current root.
GenuineInclusion ==
    /\ ma_call.op = "verify_inclusion_proof"
    /\ ma_call.index < size(ma)
    /\ ma_call.proof = prove(ma, ma_call.index).proof
    /\ Some(ma_call.value) = get(ma, ma_call.index)
    /\ ma_call.rt = root(ma)

\* C23: whatever updates were applied, for every index i < n the co-path
\* prove(i) returns verifies get(i) at index i against root(); prove(i)
\* succeeds; and in an accumulator of one leaf the proof is empty and the
\* root is the hash of the leaf.
C23_ProveVerifies ==
    /\ \A i \in 0 .. (size(ma) - 1) :
          /\ prove(ma, i).ok
          /\ get(ma, i) # None
          /\ verify_inclusion_proof(root(ma), prove(ma, i).proof, get(ma, i)[1], i, size(ma))
    /\ size(ma) = 1 => prove(ma, 0).proof = <<>> /\ root(ma) = hash_leaf(ma.data[1])
    /\ (ma_call.op = "prove" /\ ma_call.index < size(ma)) =>
          /\ ma_call.result = "ok"
          /\ verify_inclusion_proof(root(ma), ma_call.proof, ma.data[ma_call.index + 1],
                                    ma_call.index, size(ma))
    /\ GenuineInclusion => ma_call.result = "true"

\* After an update that changed a leaf of a three-leaf accumulator, a proof
\* from prove was verified.
C23_Witness ==
    /\ GenuineInclusion
    /\ ma_call.result = "true"
    /\ size(ma) = MaxLeaves
    /\ ma_upd.some
    /\ ma_upd.old_value # ma_upd.new_value

\* The last call verified the proof of the last update at the update's index.
UpdateProofChecked ==
    /\ ma_call.op = "verify_update_proof"
    /\ ma_upd.some
    /\ ma_call.proof = ma_upd.proof
    /\ ma_call.index = ma_upd.index

\* The arguments of the last call that are not those of the last update: the
\* leaf it replaced, the leaf it wrote, the root before and the root after.
OtherArguments ==
    {k \in {"value", "new_value", "old_root", "rt"} :
        \/ k = "value" /\ ma_call.value # ma_upd.old_value
        \/ k = "new_value" /\ ma_call.new_value # ma_upd.new_value
        \/ k = "old_root" /\ ma_call.old_root # ma_upd.old_root
        \/ k = "rt" /\ ma_call.rt # ma_upd.new_root}

\* C24: verify_update_proof returns true exactly when the co-path verifies the
\* old leaf against the old root and the new leaf against the new root, both
\* at index i; it is true for the proof update(i, v') returned, given the
\* replaced leaf, v' and the root after the update, and false when one of
\* them (a root, the old value or the new value) is another one.
C24_UpdateProofVerifies ==
    /\ Called("verify_update_proof") =>
          (ma_call.result = "true" <=>
              /\ verify_inclusion_proof(ma_call.old_root, ma_call.proof, ma_call.value,
                                        ma_call.index, size(ma))
              /\ verify_inclusion_proof(ma_call.rt, ma_call.proof, ma_call.new_value,
                                        ma_call.index, size(ma)))
    /\ (UpdateProofChecked /\ OtherArguments = {}) => ma_call.result = "true"
    /\ (UpdateProofChecked /\ Cardinality(OtherArguments) = 1) => ma_call.result = "false"

\* The proof of an update that changed a leaf was verified with the update's
\* own arguments.
C24_Witness ==
    /\ UpdateProofChecked
    /\ OtherArguments = {}
    /\ ma_call.result = "true"
    /\ ma_upd.old_value # ma_upd.new_value
    /\ size(ma) = MaxLeaves

\* C25: when verify_inclusion_proof returns true for the root of the
\* accumulator and its size n, the index is below n and the element is the
\* leaf stored at that index.
C25_VerifiedMeansStored ==
    (/\ ma_call.op = "verify_inclusion_proof"
     /\ ma_call.rt = root(ma)
     /\ ma_call.result = "true") =>
        /\ ma_call.index < size(ma)
        /\ ma_call.value = ma.data[ma_call.index + 1]

C26_Step ==
    \A index \in {i \in Indexes : i >= size(ma)} :
        /\ \A value \in LeafValues :
              acc_update(index, value) =>
                  /\ ma_call'.result = "err"
                  /\ ma' = ma
                  /\ ma_upd' = ma_upd
        /\ acc_prove(index) => ma_call'.result = "err" /\ ma' = ma

\* C26: prove(i) and update(i, v) with i >= n return the error, and the
\* failed update leaves the leaves, the tree and its root as they were: the
\* index is not wrapped or truncated to a valid one.
C26_OutOfBoundsIsError ==
    /\ [][C26_Step]_vars
    /\ [](ma_call.op \in {"prove", "update"} =>
             (ma_call.result = "err" <=> ma_call.index >= size(ma)))

\* An update past the end of an accumulator that had been updated before.
C26_Witness ==
    /\ ma_call.op = "update"
    /\ ma_call.index >= size(ma)
    /\ ma_call.result = "err"
    /\ ma_upd.some
    /\ size(ma) = MaxLeaves

\* ------------------------------------ big-number ECALLs (vm ecall.rs)
\* Bytes of the handlers' local operand arrays (scaled down).
MAX_BIGNUMBER_SIZE == 2
\* Big-number ECALLs in a run.
MaxBnCalls == 1
BnLens == 0 .. (MAX_BIGNUMBER_SIZE + 1)
GuestPointers == 0 .. (GSize - 1)

\* The guest addresses of a buffer of n bytes at g_ptr.
Covered(g_ptr, n) == g_ptr .. (g_ptr + n - 1)

NoBn ==
    [op |-> "", r |-> 0, len |-> 0, operands |-> {}, reads |-> {}, writes |-> {},
     result |-> "", calls |-> 0]

\* `cpu.get_segment(p.0)?.read_buffer(p.0, &mut x_local)?` for each operand in
\* turn: read_buffer fills the whole local array, MAX_BIGNUMBER_SIZE bytes.
RECURSIVE read_locals(_)
read_locals(ptrs) ==
    IF ptrs = <<>> THEN [ok |-> TRUE, reads |-> {}]
    ELSE IF ~(get_segment_ok(Head(ptrs)) /\ read_buffer_ok(Head(ptrs), MAX_BIGNUMBER_SIZE))
         THEN [ok |-> FALSE, reads |-> {}]
         ELSE LET rest == read_locals(Tail(ptrs)) IN
              [ok |-> rest.ok,
               reads |-> Covered(Head(ptrs), MAX_BIGNUMBER_SIZE) \cup rest.reads]

\* The body the five handlers share: the length checks, the operands copied
\* to local arrays, the cx_math call on `len` bytes of r_local (any result,
\* or a status other than CX_OK), and the whole of r_local written back at r.
\* in_place: r_local is also the array the first operand was read into.
bn_handler(op, r, ptrs, lens, len, in_place) ==
    LET rd == read_locals(ptrs)
        call == [NoBn EXCEPT !.op = op, !.r = r, !.len = len, !.calls = bn.calls + 1,
                             !.operands = {<<ptrs[i], lens[i]>> : i \in DOMAIN ptrs}]
        failed == [call EXCEPT !.reads = rd.reads, !.result = "err"]
    IN IF bn.calls >= MaxBnCalls THEN FALSE
       ELSE IF \E i \in DOMAIN lens : lens[i] > MAX_BIGNUMBER_SIZE
       THEN bn' = [call EXCEPT !.result = "err"] /\ UNCHANGED gmem
       ELSE IF ~rd.ok
       THEN bn' = failed /\ UNCHANGED gmem
       ELSE \E cx_ok \in BOOLEAN, res \in [1 .. len -> Byte] :
               LET r_local == [i \in 1 .. MAX_BIGNUMBER_SIZE |->
                                  IF i <= len THEN res[i]
                                  ELSE IF in_place
                                       THEN read_buffer(ptrs[1], MAX_BIGNUMBER_SIZE)[i]
                                       ELSE 0]
               IN IF ~cx_ok \/ ~(get_segment_ok(r) /\ write_buffer_ok(r, r_local))
                  THEN bn' = failed /\ UNCHANGED gmem
                  ELSE /\ gmem' = write_buffer(gmem, r, r_local)
                       /\ bn' = [call EXCEPT !.reads = rd.reads,
                                             !.writes = Covered(r, MAX_BIGNUMBER_SIZE),
                                             !.result = "ok"]

handle_bn_modm(r, n, len, m, m_len) == bn_handler("modm", r, <<n, m>>, <<len, m_len>>, len, TRUE)

handle_bn_addm(r, a, b, m, len) == bn_handler("addm", r, <<a, b, m>>, <<len, len, len>>, len, FALSE)

handle_bn_subm(r, a, b, m, len) == bn_handler("subm", r, <<a, b, m>>, <<len, len, len>>, len, FALSE)

handle_bn_multm(r, a, b, m, len) == bn_handler("multm", r, <<a, b, m>>, <<len, len, len>>, len, FALSE)

handle_bn_powm(r, a, e, len_e, m, len) ==
    bn_handler("powm", r, <<a, e, m>>, <<len, len_e, len>>, len, FALSE)

BnIdle == bn = NoBn

BnNext ==
    \/ \E r \in GuestPointers, n \in GuestPointers, len \in BnLens,
          m \in GuestPointers, m_len \in BnLens : handle_bn_modm(r, n, len, m, m_len)
    \/ \E r \in GuestPointers, a \in GuestPointers, b \in GuestPointers,
          m \in GuestPointers, len \in BnLens : handle_bn_addm(r, a, b, m, len)
    \/ \E r \in GuestPointers, a \in GuestPointers, b \in GuestPointers,
          m \in GuestPointers, len \in BnLens : handle_bn_subm(r, a, b, m, len)
    \/ \E r \in GuestPointers, a \in GuestPointers, b \in GuestPointers,
          m \in GuestPointers, len \in BnLens : handle_bn_multm(r, a, b, m, len)
    \/ \E r \in GuestPointers, a \in GuestPointers, e \in GuestPointers, len_e \in BnLens,
          m \in GuestPointers, len \in BnLens : handle_bn_powm(r, a, e, len_e, m, len)

\* ------------------------------------- properties: big-number ECALLs
\* C27: a big-number handler reads guest memory only inside the operands'
\* declared lengths, and writes it only inside the declared length of the
\* result.
C27_OnlyDeclaredBytes ==
    /\ bn.reads \subseteq UNION {Covered(o[1], o[2]) : o \in bn.operands}
    /\ bn.writes \subseteq Covered(bn.r, bn.len)

\* ------------------------------------------- the CPU (common/vm.rs)
\* Bits of a register and of an address (32 in the code); a byte is one bit,
\* so that a u16 is two bytes and a u32 four, as in the code.
WordBits == 4
\* Registers x0 .. x(NRegs - 1).
NRegs == 3
\* Instructions executed in a run.
MaxInstr == 1

WordMod == 2 ^ WordBits
Words == 0 .. (WordMod - 1)
Regs == 0 .. (NRegs - 1)
INST_SIZE == 4

\* `x as u32` of an integer, and `x as i32` of a word.
as_u32(x) == x % WordMod
as_i32(x) == IF x >= WordMod \div 2 THEN x - WordMod ELSE x
wrapping_add(a, b) == (a + b) % WordMod
wrapping_sub(a, b) == (a - b) % WordMod

RECURSIVE bit_and(_, _)
bit_and(a, b) ==
    IF a = 0 \/ b = 0 THEN 0
    ELSE (a % 2) * (b % 2) + 2 * bit_and(a \div 2, b \div 2)
bit_or(a, b) == a + b - bit_and(a, b)
bit_xor(a, b) == a + b - 2 * bit_and(a, b)
\* `x & 0x1f`: the shift amount, below the width of a register.
shamt(x) == x % WordBits
bool_as_u32(b) == IF b THEN 1 ELSE 0

\* The decoded instructions (riscv::op::Op).
Op(name, rd, rs1, rs2, imm) == [name |-> name, rd |-> rd, rs1 |-> rs1, rs2 |-> rs2, imm |-> imm]
NoOp == Op("", 0, 0, 0, 0)
RegOps == {"Add", "Sub", "Sll", "Slt", "Sltu", "Xor", "Srl", "Sra", "Or", "And"}
ImmOps == {"Addi", "Andi", "Ori", "Xori", "Slti", "Sltiu", "Slli", "Srli", "Srai"}
UpperOps == {"Auipc", "Lui"}
BranchOps == {"Beq", "Bne", "Blt", "Bge", "Bltu", "Bgeu"}
LoadOps == {"Lb", "Lh", "Lw", "Lbu", "Lhu"}
StoreOps == {"Sb", "Sh", "Sw"}
\* Immediates: a backward and a forward target, an odd and an even offset.
Imms == {-4, 1, 2}
Ops ==
    {Op(n, rd, rs1, rs2, 0) : n \in RegOps, rd \in Regs, rs1 \in Regs, rs2 \in Regs}
    \cup {Op(n, rd, rs1, 0, imm) : n \in ImmOps \cup LoadOps \cup {"Jalr"},
                                   rd \in Regs, rs1 \in Regs, imm \in Imms}
    \cup {Op(n, rd, 0, 0, imm) : n \in UpperOps \cup {"Jal"}, rd \in Regs, imm \in Imms}
    \cup {Op(n, 0, rs1, rs2, imm) : n \in BranchOps \cup StoreOps,
                                    rs1 \in Regs, rs2 \in Regs, imm \in Imms}
    \cup {Op(n, 0, 0, 0, 0) : n \in {"Ecall", "Break", "Unknown"}}

\* Bytes of an access: u8, u16, u32.
Width(name) ==
    IF name \in {"Lb", "Lbu", "Sb"} THEN 1
    ELSE IF name \in {"Lh", "Lhu", "Sh"} THEN 2
    ELSE 4

\* MemorySegment::contains
MemorySegment_contains(seg, address) ==
    address >= seg.start_address /\ address < seg.start_address + seg.size

\* MemorySegment::read_u8/u16/u32 and write_u8/u16/u32, up to the access to
\* the page: the bounds check and the alignment check.  start_address + size
\* - n is computed in u32: below zero it panics in a build with overflow
\* checks and wraps in one without.
MemorySegment_check(seg, address, n, overflow_checks) ==
    IF address < seg.start_address THEN "err"
    ELSE LET last == seg.start_address + seg.size - n IN
         IF last < 0 /\ overflow_checks THEN "panic"
         ELSE IF address > last % WordMod THEN "err"
         ELSE IF n > 1 /\ address % n # 0 THEN "err"
         ELSE "ok"

\* u16::from_le_bytes / u32::from_le_bytes of the bytes at an address.
RECURSIVE from_le_bytes(_, _, _)
from_le_bytes(bytes, address, n) ==
    IF n = 0 THEN 0 ELSE bytes[address] + 2 * from_le_bytes(bytes, address + 1, n - 1)

\* The bytes of a page after `page.data[offset + k] = (value >> 8k) as u8`.
to_le_bytes(bytes, address, n, value) ==
    [a \in DOMAIN bytes |->
        IF a >= address /\ a < address + n THEN (value \div (2 ^ (a - address))) % 2
        ELSE bytes[a]]

\* Cpu::read_u8/u16/u32: the first of stack, data and code that contains the
\* address serves the load.
Cpu_read_segment(s, address) ==
    IF MemorySegment_contains(s.stack_seg, address) THEN "stack_seg"
    ELSE IF MemorySegment_contains(s.data_seg, address) THEN "data_seg"
    ELSE IF MemorySegment_contains(s.code_seg, address) THEN "code_seg"
    ELSE ""

\* Cpu::write_u8/u16/u32: stack or data.
Cpu_write_segment(s, address) ==
    IF MemorySegment_contains(s.stack_seg, address) THEN "stack_seg"
    ELSE IF MemorySegment_contains(s.data_seg, address) THEN "data_seg"
    ELSE ""

Cpu_read(s, m, address, n) ==
    LET name == Cpu_read_segment(s, address) IN
    IF name = "" THEN [status |-> "err", value |-> 0]
    ELSE LET status == MemorySegment_check(s[name], address, n, s.overflow_checks) IN
         [status |-> status,
          value |-> IF status = "ok" THEN from_le_bytes(m[name], address, n) ELSE 0]

Cpu_write(s, m, address, n, value) ==
    LET name == Cpu_write_segment(s, address) IN
    IF name = "" THEN [status |-> "err", mem |-> m]
    ELSE LET status == MemorySegment_check(s[name], address, n, s.overflow_checks) IN
         [status |-> status,
          mem |-> IF status = "ok"
                  THEN [m EXCEPT ![name] = to_le_bytes(m[name], address, n, value)]
                  ELSE m]

\* `value as i8 as i32 as u32`, `value as i16 as i32 as u32`: sign extension
\* of a value of n bytes.
sign_extend(value, n) == IF value >= 2 ^ (n - 1) THEN as_u32(value - 2 ^ n) ELSE value

\* The value an arithmetic instruction writes to rd.
alu(c, op) ==
    LET a == c.regs[op.rs1]
        b == c.regs[op.rs2]
        imm == op.imm
    IN CASE op.name = "Add" -> wrapping_add(a, b)
         [] op.name = "Sub" -> wrapping_sub(a, b)
         [] op.name = "Sll" -> as_u32(a * 2 ^ shamt(b))
         [] op.name = "Slt" -> bool_as_u32(as_i32(a) < as_i32(b))
         [] op.name = "Sltu" -> bool_as_u32(a < b)
         [] op.name = "Xor" -> bit_xor(a, b)
         [] op.name = "Srl" -> a \div 2 ^ shamt(b)
         [] op.name = "Sra" -> as_u32(as_i32(a) \div 2 ^ shamt(b))
         [] op.name = "Or" -> bit_or(a, b)
         [] op.name = "And" -> bit_and(a, b)
         [] op.name = "Addi" -> wrapping_add(a, as_u32(imm))
         [] op.name = "Andi" -> bit_and(a, as_u32(imm))
         [] op.name = "Ori" -> bit_or(a, as_u32(imm))
         [] op.name = "Xori" -> bit_xor(a, as_u32(imm))
         [] op.name = "Slti" -> bool_as_u32(as_i32(a) < imm)
         [] op.name = "Sltiu" -> bool_as_u32(a < as_u32(imm))
         [] op.name = "Slli" -> as_u32(a * 2 ^ shamt(imm))
         [] op.name = "Srli" -> a \div 2 ^ shamt(imm)
         [] op.name = "Srai" -> as_u32(as_i32(a) \div 2 ^ shamt(imm))
         [] op.name = "Auipc" -> wrapping_add(c.pc, as_u32(imm))
         [] op.name = "Lui" -> as_u32(imm)

\* The condition of a branch.
branch_condition(c, op) ==
    LET a == c.regs[op.rs1]
        b == c.regs[op.rs2]
    IN CASE op.name = "Beq" -> a = b
         [] op.name = "Bne" -> a # b
         [] op.name = "Blt" -> as_i32(a) < as_i32(b)
         [] op.name = "Bge" -> as_i32(a) >= as_i32(b)
         [] op.name = "Bltu" -> a < b
         [] op.name = "Bgeu" -> a >= b

\* A register file that keeps what was written to x0.
keep_x0(regs) == regs

\* `self.regs[0] = 0`
zero_x0(regs) == [regs EXCEPT ![0] = 0]

\* The end of execute: `self.pc = self.pc.wrapping_add(pc_inc); self.regs[0] = 0;
\* Ok(())`.
Retire(self_pc, pc_inc, regs, m) ==
    [result |-> "ok", pc |-> wrapping_add(self_pc, pc_inc), regs |-> zero_x0(regs), mem |-> m]

\* The returns before the end: Err(..), and the panics.
Stop(c, m, result) == [result |-> result, pc |-> c.pc, regs |-> c.regs, mem |-> m]

\* Cpu::execute on a decoded instruction.
Exec(c, m, s, op) ==
    IF op.name \in RegOps \cup ImmOps \cup UpperOps
    THEN Retire(c.pc, INST_SIZE, [c.regs EXCEPT ![op.rd] = alu(c, op)], m)
    ELSE IF op.name \in BranchOps \ {"Bgeu"}
    THEN Retire(c.pc, IF branch_condition(c, op) THEN as_u32(op.imm) ELSE INST_SIZE, c.regs, m)
    ELSE IF op.name = "Bgeu"
    THEN Retire(IF branch_condition(c, op) THEN wrapping_add(c.pc, as_u32(op.imm)) ELSE c.pc,
                INST_SIZE, c.regs, m)
    ELSE IF op.name = "Jal"
    THEN Retire(c.pc, as_u32(op.imm),
                [c.regs EXCEPT ![op.rd] = wrapping_add(c.pc, INST_SIZE)], m)
    ELSE IF op.name = "Jalr"
    THEN LET sum == wrapping_add(c.regs[op.rs1], as_u32(op.imm))
             new_pc == sum - (sum % 2)
         IN Retire(new_pc, 0, [c.regs EXCEPT ![op.rd] = wrapping_add(c.pc, INST_SIZE)], m)
    ELSE IF op.name \in LoadOps
    THEN LET addr == wrapping_add(c.regs[op.rs1], as_u32(op.imm))
             n == Width(op.name)
             r == Cpu_read(s, m, addr, n)
         IN IF addr % n # 0 /\ n > 1 THEN Stop(c, m, "err")
            ELSE IF r.status # "ok" THEN Stop(c, m, r.status)
            ELSE Retire(c.pc, INST_SIZE,
                        [c.regs EXCEPT ![op.rd] = IF op.name \in {"Lb", "Lh"}
                                                  THEN sign_extend(r.value, n)
                                                  ELSE r.value], m)
    ELSE IF op.name \in StoreOps
    THEN LET addr == wrapping_add(c.regs[op.rs1], as_u32(op.imm))
             n == Width(op.name)
             w == Cpu_write(s, m, addr, n, c.regs[op.rs2] % (2 ^ n))
         IN IF addr % n # 0 /\ n > 1 THEN Stop(c, m, "err")
            ELSE IF w.status # "ok" THEN Stop(c, m, w.status)
            ELSE Retire(c.pc, INST_SIZE, c.regs, w.mem)
    ELSE IF op.name \in {"Ecall", "Break"}
    THEN Stop(c, m, "panic")
    ELSE Stop(c, m, "err")

execute(op) ==
    /\ cres.n < MaxInstr
    /\ cres.result # "panic"
    /\ LET e == Exec(cpu, cmem, segs, op) IN
       /\ cpu' = [pc |-> e.pc, regs |-> e.regs]
       /\ cmem' = e.mem
       /\ cres' = [op |-> op, result |-> e.result, n |-> cres.n + 1]
    /\ UNCHANGED segs

\* Code, data and stack one after the other; and a layout whose data segment
\* is the two bytes at address 0.
Segment(start, n) == [start_address |-> start, size |-> n]
Layouts ==
    {[code_seg |-> Segment(0, 4), data_seg |-> Segment(4, 3), stack_seg |-> Segment(8, 4)],
     [code_seg |-> Segment(4, 4), data_seg |-> Segment(0, 2), stack_seg |-> Segment(8, 4)]}

\* The register values a run is taken up from: with the immediates they
\* address every segment, its last bytes, and the addresses outside.
StartWords == {5, 12, 15}
\* The program counters a run is taken up from.
StartPcs == {0, 4, 12}

CpuInit ==
    /\ \E layout \in Layouts, overflow_checks \in BOOLEAN :
          segs = [code_seg |-> layout.code_seg, data_seg |-> layout.data_seg,
                  stack_seg |-> layout.stack_seg, overflow_checks |-> overflow_checks]
    /\ \E self_pc \in StartPcs, x1 \in StartWords, x2 \in {5, 12} :
          cpu = [pc |-> self_pc,
                 regs |-> [r \in Regs |-> IF r = 0 THEN 0 ELSE IF r = 1 THEN x1 ELSE x2]]
    /\ cmem = [name \in {"code_seg", "data_seg", "stack_seg"} |-> [a \in Words |-> 1]]
    /\ cres = [op |-> NoOp, result |-> "", n |-> 0]

CpuIdle ==
    /\ segs = [code_seg |-> Segment(0, 4), data_seg |-> Segment(4, 3),
               stack_seg |-> Segment(8, 4), overflow_checks |-> FALSE]
    /\ cpu = [pc |-> 0, regs |-> [r \in Regs |-> 0]]
    /\ cmem = [name \in {"code_seg", "data_seg", "stack_seg"} |-> [a \in Words |-> 1]]
    /\ cres = [op |-> NoOp, result |-> "", n |-> 0]

CpuNext == \E op \in Ops : execute(op)

\* --------------------------------------------------- properties: CPU
\* The instruction completed: execute returned Ok.  (cres'.op is the
\* instruction of the step.)
Completes(op) == execute(op) /\ cres'.result = "ok"

\* The next PC of an instruction at cpu.pc: the target of a branch whose
\* condition holds and of a jump, the next instruction otherwise.
NextPc(op) ==
    IF op.name \in BranchOps /\ branch_condition(cpu, op)
    THEN wrapping_add(cpu.pc, as_u32(op.imm))
    ELSE IF op.name = "Jal" THEN wrapping_add(cpu.pc, as_u32(op.imm))
    ELSE IF op.name = "Jalr"
    THEN LET target == wrapping_add(cpu.regs[op.rs1], as_u32(op.imm)) IN target - (target % 2)
    ELSE wrapping_add(cpu.pc, 4)

\* C28: a branch at pc sets the next PC to pc + imm when its condition holds
\* and to pc + 4 otherwise; JAL sets it to pc + imm, JALR to rs1 + imm with
\* bit 0 cleared, and every other instruction that completes to pc + 4.
C28_NextPcIsTarget ==
    [][LET op == cres'.op IN Completes(op) => cpu'.pc = NextPc(op)]_vars

C29_Step ==
    LET op == cres'.op IN
        Completes(op) =>
            /\ cpu'.regs[0] = 0
            /\ (op.name = "Addi" /\ op.rs1 = 0 /\ op.rd # 0) =>
                  cpu'.regs[op.rd] = as_u32(op.imm)
            /\ (op.name = "Add" /\ op.rs1 = 0 /\ op.rd # 0) =>
                  cpu'.regs[op.rd] = cpu.regs[op.rs2]
            /\ (op.name = "Bne" /\ op.rs1 = 0 /\ op.rs2 = 0) =>
                  cpu'.pc = wrapping_add(cpu.pc, 4)

\* C29: x0 holds zero after every instruction that completes, whatever its
\* destination register, and an instruction that reads x0 reads zero.
C29_X0IsZero == [](cpu.regs[0] = 0) /\ [][C29_Step]_vars

\* ADDI x0, x1, imm completed with x1 + imm other than zero.
C29_Witness ==
    /\ cres.result = "ok"
    /\ cres.op.name = "Addi"
    /\ cres.op.rd = 0
    /\ cres.op.rs1 = 1
    /\ cpu.regs[1] = 5
    /\ cpu.regs[0] = 0

\* The address of a load or store, and whether its bytes all lie in one segment.
Address(op) == wrapping_add(cpu.regs[op.rs1], as_u32(op.imm))
InsideOneSegment(address, n) ==
    \E name \in {"code_seg", "data_seg", "stack_seg"} :
        \A k \in 0 .. (n - 1) : MemorySegment_contains(segs[name], address + k)

\* C30: a 16- or 32-bit load or store at an address that is not a multiple
\* of its width, and a load or store whose bytes are not all inside one
\* segment, fails with the memory access error and changes no register, no
\* memory byte and not the PC.
C30_BadAccessFails ==
    [][LET op == cres'.op IN
          (/\ op.name \in LoadOps \cup StoreOps
           /\ \/ Address(op) % Width(op.name) # 0
              \/ ~InsideOneSegment(Address(op), Width(op.name))
           /\ execute(op)) =>
              /\ cres'.result = "err"
              /\ cpu' = cpu
              /\ cmem' = cmem]_vars

\* The status the device answers when execute returned: an Err of the
\* CPU ends the run with VMRuntimeError; a panic (todo!()) is taken by
\* handle_panic, which answers the SDK's Panic status.
run_status(result) ==
    IF result = "err" THEN "VMRuntimeError"
    ELSE IF result = "panic" THEN "Panic"
    ELSE ""

\* Whether sample_main's loop takes a next command after the run:
\* handle_panic ends in exit_app.
device_serves(result) == result # "panic"

\* C31: executing EBREAK, an opcode that does not decode, or an ECALL that is
\* not an enumerated one ends the run with status VMRuntimeError, and the
\* device goes on serving commands.
C31_FatalIsRuntimeError ==
    (cres.n > 0 /\ cres.op.name \in {"Break", "Unknown", "Ecall"}) =>
        /\ run_status(cres.result) = "VMRuntimeError"
        /\ device_serves(cres.result)

\* ------------------------------------------ app-sdk comm (app-sdk comm.rs)
\* common::comm::CHUNK_LENGTH, scaled: a first chunk carries the length and
\* two bytes of the message.
CHUNK_LENGTH == 6
\* The longest message sent: three chunks, the last of one byte.
MaxCommLen == 9

\* common::comm::ACK
ACK == <<0>>
\* The size receive_message gives its first xrecv (256 for the chunk length).
FIRST_RECV_SIZE == CHUNK_LENGTH

CommMessages == UNION {[1 .. k -> Byte] : k \in 0 .. MaxCommLen}

\* What xrecv finds: the next buffer its peer sent; when there is none the
\* native xrecv waits, and the ECALL (handle_xrecv answered by a host with
\* no buffer queued) returns no bytes.
xrecv(queue, blocking) ==
    IF queue # <<>> THEN {Head(queue)}
    ELSE IF blocking THEN {} ELSE {<<>>}

\* The queue after an xrecv.
Taken(queue) == IF queue # <<>> THEN Tail(queue) ELSE queue

NoComm ==
    [msg |-> <<>>, blocking |-> TRUE,
     s |-> [pc |-> "idle", total_bytes_sent |-> 0],
     r |-> [pc |-> "idle", result |-> <<>>, remaining_bytes |-> 0, error |-> ""],
     to_r |-> <<>>, to_s |-> <<>>, log |-> <<>>]

\* send_message, lines 128-139: the first chunk.
send_message_first ==
    /\ cm.s.pc = "start"
    /\ LET msg == cm.msg
           length_be == to_be_bytes(Len(msg))
           first_chunk_msg_bytes == Min(CHUNK_LENGTH - 4, Len(msg))
           chunk == length_be \o SubSeq(msg, 1, first_chunk_msg_bytes)
       IN cm' = [cm EXCEPT !.to_r = Append(cm.to_r, chunk),
                           !.log = Append(cm.log, [by |-> "sender", op |-> "xsend", buf |-> chunk]),
                           !.s = [pc |-> IF first_chunk_msg_bytes < Len(msg) THEN "wait" ELSE "done",
                                  total_bytes_sent |-> first_chunk_msg_bytes]]

\* send_message, lines 141-150: one turn of the loop.
send_message_next ==
    /\ cm.s.pc = "wait"
    /\ \E ack \in xrecv(cm.to_s, cm.blocking) :
          LET msg == cm.msg
              total_bytes_sent == cm.s.total_bytes_sent
              end_idx == Min(total_bytes_sent + CHUNK_LENGTH, Len(msg))
              chunk == SubSeq(msg, total_bytes_sent + 1, end_idx)
          IN cm' = [cm EXCEPT !.to_s = Taken(cm.to_s),
                              !.to_r = Append(cm.to_r, chunk),
                              !.log = cm.log \o <<[by |-> "sender", op |-> "xrecv", buf |-> ack],
                                                  [by |-> "sender", op |-> "xsend", buf |-> chunk]>>,
                              !.s = [pc |-> IF end_idx < Len(msg) THEN "wait" ELSE "done",
                                     total_bytes_sent |-> end_idx]]

\* receive_message's loop condition and the ACK at the top of a turn.
Continue(c, result, remaining_bytes, received) ==
    [c EXCEPT !.r = [pc |-> IF remaining_bytes > 0 THEN "chunk" ELSE "ok",
                     result |-> result, remaining_bytes |-> remaining_bytes, error |-> ""],
              !.to_s = IF remaining_bytes > 0 THEN Append(c.to_s, ACK) ELSE c.to_s,
              !.log = c.log \o <<[by |-> "receiver", op |-> "xrecv", buf |-> received]>>
                         \o IF remaining_bytes > 0
                            THEN <<[by |-> "receiver", op |-> "xsend", buf |-> ACK]>> ELSE <<>>]

\* receive_message returns Err.
Fail(c, error, received) ==
    [c EXCEPT !.r = [c.r EXCEPT !.pc = "err", !.error = error],
              !.log = Append(c.log, [by |-> "receiver", op |-> "xrecv", buf |-> received])]

\* receive_message, lines 70-95: the first chunk.
receive_message_first ==
    /\ cm.r.pc = "start"
    /\ \E first_chunk \in xrecv(cm.to_r, cm.blocking) :
          LET c == [cm EXCEPT !.to_r = Taken(cm.to_r)]
              length == from_be_bytes(SubSeq(first_chunk, 1, 4))
              result == SubSeq(first_chunk, 5, Len(first_chunk))
          IN cm' = IF Len(first_chunk) < 4 THEN Fail(c, "FailedToReadLength", first_chunk)
                   ELSE IF Len(first_chunk) > 4 + length
                   THEN Fail(c, "TooManyBytesReceived", first_chunk)
                   ELSE Continue(c, result, length - Len(result), first_chunk)

\* receive_message, lines 97-108: a further chunk.
receive_message_next ==
    /\ cm.r.pc = "chunk"
    /\ \E chunk \in xrecv(cm.to_r, cm.blocking) :
          LET c == [cm EXCEPT !.to_r = Taken(cm.to_r)]
          IN cm' = IF chunk = <<>> THEN Fail(c, "FailedToReadMessage", chunk)
                   ELSE IF Len(chunk) > cm.r.remaining_bytes
                   THEN Fail(c, "TooManyBytesReceived", chunk)
                   ELSE Continue(c, cm.r.result \o chunk, cm.r.remaining_bytes - Len(chunk), chunk)

CommInit ==
    \E msg \in CommMessages, blocking \in BOOLEAN :
        cm = [NoComm EXCEPT !.msg = msg, !.blocking = blocking,
                            !.s.pc = "start", !.r.pc = "start"]

CommIdle == cm = NoComm

CommNext ==
    \/ send_message_first
    \/ send_message_next
    \/ receive_message_first
    \/ receive_message_next

\* ------------------------------------------- NVRAM slots (vm nvm.rs, vapp.rs)
\* STORAGE_VALID, as a flag value other than zero.
STORAGE_VALID == 1

\* One AlignedStorage::update: the flag byte, or a part of the value (the
\* value is longer than one NVRAM write unit and is written in two parts:
\* the hash, then the name and the version).
WriteFlag(f) == [field |-> "flag", flag |-> f, value |-> VAppEntry_empty]
WriteValue(part, value) == [field |-> part, flag |-> 0, value |-> value]
WriteWhole(value) == <<WriteValue("hash", value), WriteValue("strings", value)>>

\* LazyStorage::is_initialized
is_initialized(s) == s.flag = STORAGE_VALID

\* LazyStorage::initialize, as its NVRAM writes in order.
LazyStorage_initialize(value) == WriteWhole(value) \o <<WriteFlag(STORAGE_VALID)>>

\* An update that leaves the flag set while it writes the value.
LazyStorage_update_in_place(value) == WriteWhole(value) \o <<WriteFlag(STORAGE_VALID)>>

\* LazyStorage::update
LazyStorage_update(value) ==
    <<WriteFlag(0)>> \o WriteWhole(value) \o <<WriteFlag(STORAGE_VALID)>>

\* LazyStorage::clear
LazyStorage_clear == <<WriteFlag(0)>> \o WriteWhole(VAppEntry_empty)

\* The slot after one write; `partial` tells that the value holds parts of
\* two different writes.
Written(s, w) ==
    IF w.field = "flag" THEN [s EXCEPT !.flag = w.flag]
    ELSE IF w.field = "hash"
    THEN [s EXCEPT !.value.vapp_hash = w.value.vapp_hash, !.partial = TRUE]
    ELSE [s EXCEPT !.value.vapp_name = w.value.vapp_name,
                   !.value.vapp_version = w.value.vapp_version,
                   !.partial = (s.value.vapp_hash # w.value.vapp_hash)]

\* The table as the registry's searches see it.
StoreOf(slots) ==
    [i \in Slots |-> [initialized |-> is_initialized(slots[i]), value |-> slots[i].value]]

NoNvOp == [kind |-> "", slot |-> 0, value |-> VAppEntry_empty, pending |-> <<>>]
NvOp(kind, slot, value, pending) ==
    [kind |-> kind, slot |-> slot, value |-> value, pending |-> pending]

\* The manifests registered: two names, two versions.
NvManifests ==
    {m \in OnePageManifests :
        /\ m.vapp_name \in {<<"a">>, <<"b">>}
        /\ m.code_merkle_root = RootOf(ImageHashes(1, 0))}

\* VAppStore::register up to its call of update or initialize.
nv_register(m) ==
    /\ nv.op.pending = <<>>
    /\ nv.menu # "loop"
    /\ LET store == StoreOf(nv.slots)
           entry == [vapp_hash |-> Some(get_vapp_hash(m)),
                     vapp_name |-> Padded(m.vapp_name),
                     vapp_version |-> Padded(m.vapp_version)]
           existing == find_by_name(store, m.vapp_name)
           slot == first_free_slot(store)
       IN /\ existing # None \/ slot # None
          /\ nv' = [nv EXCEPT
                      !.op = IF existing # None
                             THEN NvOp("update", existing[1], entry, LazyStorage_update(entry))
                             ELSE NvOp("initialize", slot[1], entry, LazyStorage_initialize(entry)),
                      !.menu = "idle", !.stalled = FALSE]

\* VAppStore::unregister up to its call of clear; FALSE when it returns false.
unregister(slots, index) == index \in Slots /\ is_initialized(slots[index])

\* A removal from the table.
nv_unregister(index) ==
    /\ nv.op.pending = <<>>
    /\ nv.menu # "loop"
    /\ unregister(nv.slots, index)
    /\ nv' = [nv EXCEPT !.op = NvOp("clear", index, VAppEntry_empty, LazyStorage_clear),
                        !.menu = "idle", !.stalled = FALSE]

\* The next AlignedStorage::update of the operation in progress.
nvm_write ==
    /\ nv.op.pending # <<>>
    /\ nv' = [nv EXCEPT !.slots[nv.op.slot] = Written(@, Head(nv.op.pending)),
                        !.op.pending = Tail(@)]

\* Execution stops between two NVRAM writes; the device starts again.
power_loss ==
    /\ nv.op.pending # <<>>
    /\ nv' = [nv EXCEPT !.op = NoNvOp, !.menu = "idle", !.stalled = FALSE]

\* choice_callback(true): the uninstall is confirmed.
choice_callback ==
    /\ nv.op.pending = <<>>
    /\ nv.menu = "idle"
    /\ nv' = [nv EXCEPT !.menu = "loop", !.op = NoNvOp]

\* choice_callback, lines 75-81: one turn of the loop, up to the call of
\* clear; a turn whose unregister returns false leaves everything as it was.
uninstall_turn ==
    /\ nv.op.pending = <<>>
    /\ nv.menu = "loop"
    /\ ~nv.stalled
    /\ LET n == count(StoreOf(nv.slots))
       IN IF n = 0 THEN nv' = [nv EXCEPT !.menu = "done"]
          ELSE IF unregister(nv.slots, n - 1)
          THEN nv' = [nv EXCEPT !.op = NvOp("clear", n - 1, VAppEntry_empty, LazyStorage_clear)]
          ELSE nv' = [nv EXCEPT !.stalled = TRUE]

NvSlot_new == [flag |-> 0, value |-> VAppEntry_empty, partial |-> FALSE]

NvInit ==
    nv = [slots |-> [i \in Slots |-> NvSlot_new], op |-> NoNvOp, menu |-> "idle",
          stalled |-> FALSE]

NvIdle == NvInit

NvNext ==
    \/ \E m \in NvManifests : nv_register(m)
    \/ \E index \in Slots : nv_unregister(index)
    \/ nvm_write
    \/ power_loss
    \/ choice_callback
    \/ uninstall_turn

\* ------------------------------------------------ properties: NVRAM slots
\* The last write of initialize, update or clear is made in this step.
Finishes(kind) ==
    /\ nv.op.kind = kind
    /\ Len(nv.op.pending) = 1
    /\ nv'.op = [nv.op EXCEPT !.pending = <<>>]

C35_Step ==
    LET slot == nv.op.slot IN
        /\ (Finishes("initialize") \/ Finishes("update")) =>
              /\ is_initialized(nv'.slots[slot])
              /\ nv'.slots[slot].value = nv.op.value
              /\ ~nv'.slots[slot].partial
        /\ Finishes("clear") => ~is_initialized(nv'.slots[slot])

\* C35: at every point of initialize, update and clear, and wherever
\* execution stops between two of their writes, is_initialized() is true only
\* while the value is one completely written value; when initialize or
\* update completes get_ref is the value just written, and when clear
\* completes is_initialized() is false.
C35_FlagGuardsValue ==
    /\ [](\A i \in Slots : is_initialized(nv.slots[i]) => ~nv.slots[i].partial)
    /\ [][C35_Step]_vars

\* An update has completed on one slot while the other holds the partly
\* written value of an operation that was cut short.
C35_Witness ==
    /\ nv.op.kind = "update"
    /\ nv.op.pending = <<>>
    /\ is_initialized(nv.slots[nv.op.slot])
    /\ \E i \in Slots : nv.slots[i].partial /\ ~is_initialized(nv.slots[i])

\* C38: from every state of the registry left by registrations,
\* re-registrations, removals, uninstalls and executions that stopped
\* between two writes, the confirmed uninstall (unregister(count() - 1) until
\* count() is 0) terminates, unless execution stops, and leaves the
\* registry empty.
C38_UninstallTerminates ==
    /\ (nv.menu = "loop" ~> nv.menu \in {"done", "idle"})
    /\ [](nv.menu = "done" => count(StoreOf(nv.slots)) = 0)

\* ------------------------------------------------- properties: app-sdk comm
\* The calls of one side, in order.
CallsOf(side_name) == SelectSeq(cm.log, LAMBDA e : e.by = side_name)

\* The sender's calls: the first chunk, then an acknowledgment received
\* before each further chunk; the receiver's: a chunk received, then one ACK
\* sent before each further chunk.
Alternates ==
    LET snd == CallsOf("sender")
        rcv == CallsOf("receiver")
        first_len == Min(CHUNK_LENGTH - 4, Len(cm.msg))
    IN /\ \A i \in 1 .. Len(snd) :
             /\ snd[i].op = IF i % 2 = 1 THEN "xsend" ELSE "xrecv"
             /\ i % 2 = 0 => snd[i].buf = ACK
             /\ (i % 2 = 1 /\ i > 1) => (Len(snd[i].buf) \in 1 .. CHUNK_LENGTH)
       /\ snd # <<>> => snd[1].buf = to_be_bytes(Len(cm.msg)) \o SubSeq(cm.msg, 1, first_len)
       /\ \A i \in 1 .. Len(rcv) :
             /\ rcv[i].op = IF i % 2 = 1 THEN "xrecv" ELSE "xsend"
             /\ i % 2 = 0 => rcv[i].buf = ACK
       /\ cm.r.pc = "ok" => Len(rcv) % 2 = 1

\* Both sides returned, the receiver with the message.
BothDone == cm.s.pc = "done" /\ cm.r.pc = "ok" /\ cm.r.result = cm.msg

\* C34: send_message(m) against receive_message alternates sends and
\* receives: a first chunk of the 4-byte big-endian length and at most
\* CHUNK_LENGTH - 4 bytes, then one acknowledgment awaited before each
\* further chunk of at most CHUNK_LENGTH bytes; the receiver sends one ACK
\* before each chunk after the first and none after the last; both sides
\* terminate and the receiver returns exactly m.
C34_AlternatingTransfer ==
    /\ [](Alternates /\ cm.r.pc # "err")
    /\ <>BothDone

-----------------------------------------------------------------------------
\* app-sdk ux: review_pairs (src/app-sdk/src/ux.rs).  The review is a loop
\* that shows the active page, computes the page after it if it has not been
\* computed yet, and then reads events until one of them moves the review or
\* ends it.  The events are whatever get_event returns: the model lets any of
\* them arrive at any time.

MaxPairs == 4

\* The tag/value pairs of a review, named by their position.
pairs_of(n) == [i \in 1..n |-> i]

\* pairs.chunks(2).nth(chunk_index)
chunks_nth(pairs, chunk_index) ==
    SubSeq(pairs, 2 * chunk_index + 1,
           IF 2 * chunk_index + 2 <= Len(pairs) THEN 2 * chunk_index + 2
                                                ELSE Len(pairs))

\* The pages of app-sdk/build.rs, by the content they carry.
make_review_pairs_intro(active_page, n_pages) ==
    [content |-> "TextSubtext", active_page |-> active_page,
     n_pages |-> n_pages, list |-> <<>>]

make_review_pairs_content(active_page, n_pages, pair_chunk) ==
    [content |-> "TagValueList", active_page |-> active_page,
     n_pages |-> n_pages, list |-> pair_chunk]

make_review_pairs_final_longpress(active_page, n_pages) ==
    [content |-> "ConfirmationLongPress", active_page |-> active_page,
     n_pages |-> n_pages, list |-> <<>>]

make_review_pairs_final_confirmationbutton(active_page, n_pages) ==
    [content |-> "ConfirmationButton", active_page |-> active_page,
     n_pages |-> n_pages, list |-> <<>>]

\* The events get_event returns.
Events == {"Ticker", "Unknown", "PreviousPage", "NextPage", "Quit", "Confirm"}

NoPage == [content |-> "None", active_page |-> 0, n_pages |-> 0, list |-> <<>>]

NoReview ==
    [pc |-> "idle", pairs |-> <<>>, long_press |-> FALSE, n_pages |-> 0,
     serialized_pages |-> <<>>, active_page |-> 0, shown |-> NoPage,
     event |-> "None", result |-> FALSE]

\* review_pairs up to its loop: the intro page is computed, nothing is shown.
review_pairs(pairs, long_press) ==
    LET n_pair_pages == (Len(pairs) + 1) \div 2
        n_pages == 2 + n_pair_pages
    IN  [NoReview EXCEPT !.pc = "show", !.pairs = pairs,
                         !.long_press = long_press, !.n_pages = n_pages,
                         !.serialized_pages =
                             <<make_review_pairs_intro(0, n_pages)>>]

\* The head of the loop: show the active page, compute the one after it.
review_show ==
    /\ ux.pc = "show"
    /\ LET active_page == ux.active_page
           next_page_index == active_page + 1
           next_page ==
               IF next_page_index = ux.n_pages - 1
               THEN IF ux.long_press
                    THEN make_review_pairs_final_longpress(next_page_index,
                                                           ux.n_pages)
                    ELSE make_review_pairs_final_confirmationbutton(
                             next_page_index, ux.n_pages)
               ELSE make_review_pairs_content(
                        next_page_index, ux.n_pages,
                        chunks_nth(ux.pairs, next_page_index - 1))
       IN  ux' = [ux EXCEPT
                  !.pc = "event",
                  !.shown = ux.serialized_pages[active_page + 1],
                  !.serialized_pages =
                      IF /\ active_page + 1 < ux.n_pages
                         /\ Len(ux.serialized_pages) = active_page + 1
                      THEN Append(ux.serialized_pages, next_page)
                      ELSE ux.serialized_pages]
    /\ UNCHANGED <<cm, nv>>

\* One event of the inner loop.
review_event(event) ==
    /\ ux.pc = "event"
    /\ ux' =
         IF event = "PreviousPage" /\ ux.active_page > 0
         THEN [ux EXCEPT !.event = event, !.pc = "show",
                         !.active_page = ux.active_page - 1]
         ELSE IF event = "NextPage" /\ ux.active_page + 1 < ux.n_pages
         THEN [ux EXCEPT !.event = event, !.pc = "show",
                         !.active_page = ux.active_page + 1]
         ELSE IF event = "Quit"
         THEN [ux EXCEPT !.event = event, !.pc = "done", !.result = FALSE]
         ELSE IF event = "Confirm"
         THEN [ux EXCEPT !.event = event, !.pc = "done", !.result = TRUE]
         ELSE [ux EXCEPT !.event = event]
    /\ UNCHANGED <<cm, nv>>

UxInit ==
    \E n \in 0..MaxPairs, long_press \in BOOLEAN :
        ux = review_pairs(pairs_of(n), long_press)

UxIdle == ux = NoReview

UxNext ==
    \/ review_show
    \/ \E event \in Events : review_event(event)

-----------------------------------------------------------------------------
\* properties: review_pairs

\* The page on the screen is a confirmation page.
OnFinalPage ==
    /\ ux.active_page = ux.n_pages - 1
    /\ ux.shown.content \in {"ConfirmationLongPress", "ConfirmationButton"}

\* C40: review_pairs returns true only on a Confirm that arrives while the
\* final page is displayed, and false only on a Quit; a Confirm on the intro
\* page or on a tag/value page does not approve the review.
C40_ConfirmOnlyOnFinalPage ==
    ux.pc = "done" =>
        /\ ux.result => ux.event = "Confirm" /\ OnFinalPage
        /\ ~ux.result => ux.event = "Quit"

\* The SDK's models at rest.
SdkIdle ==
    /\ CommIdle
    /\ NvIdle
    /\ UxIdle

\* Everything but the SDK's models at rest.
RestIdle ==
    /\ side = "device"
    /\ MemInit
    /\ HostInit
    /\ peer = "engine"
    /\ RecvInit
    /\ sender = "any"
    /\ SendInit
    /\ XferIdle
    /\ wmode = "worker"
    /\ WorkerInit
    /\ DeviceInit
    /\ AccIdle
    /\ BnIdle
    /\ CpuIdle

\* The client at rest, for the behaviours that do not run it.
WorkerIdle ==
    /\ wmode = "worker"
    /\ WorkerInit

\* ------------------------------------------------------- specifications
\* The page cache and the host's commit service.
Init ==
    /\ side \in {"device", "host"}
    /\ MemInit
    /\ HostInit
    /\ peer = "engine"
    /\ RecvInit
    /\ sender = "device"
    /\ SendInit
    /\ XferIdle
    /\ WorkerIdle
    /\ DeviceInit
    /\ AccIdle
    /\ BnIdle
    /\ CpuIdle
    /\ SdkIdle

Next ==
    \/ /\ MemNext
       /\ UNCHANGED <<side, hostVars, recvVars, sendVars, xferVars, workerVars, deviceVars, accVars, bnVars, cpuVars, sdkVars>>
    \/ /\ \E msg \in CommitPageMessages : process_commit_page(msg)
       /\ UNCHANGED <<side, recvVars, sendVars, xferVars, workerVars, deviceVars, accVars, bnVars, cpuVars, sdkVars>>

Spec == Init /\ [][Next]_vars

\* The xrecv transfer, against the host engine or against any host.
InitRecv ==
    /\ side = "device"
    /\ MemInit
    /\ HostInit
    /\ peer \in {"engine", "any"}
    /\ RecvInit
    /\ sender = "device"
    /\ SendInit
    /\ XferIdle
    /\ WorkerIdle
    /\ DeviceInit
    /\ AccIdle
    /\ BnIdle
    /\ CpuIdle
    /\ SdkIdle

NextRecv ==
    /\ RecvNext
    /\ UNCHANGED <<side, memVars, hostVars, sendVars, xferVars, workerVars, deviceVars, accVars, bnVars, cpuVars, sdkVars>>

SpecRecv == InitRecv /\ [][NextRecv]_vars

\* The device runs and the host answers every request it is sent.
SpecRecvLive ==
    /\ InitRecv
    /\ [][NextRecv]_vars
    /\ WF_vars(handle_xrecv_reply /\ NextRecv)
    /\ WF_vars((step \/ process_receive_buffer_next) /\ NextRecv)
    /\ WF_vars((\E cmd \in AnyCommands : host_any_reply(cmd)) /\ NextRecv)

\* The xsend transfer: the device against the host engine or against any host,
\* and the host engine against any sender of frames.
InitSend ==
    /\ side = "device"
    /\ MemInit
    /\ HostInit
    /\ \E sp \in {<<"device", "engine">>, <<"device", "any">>, <<"any", "engine">>} :
          sender = sp[1] /\ peer = sp[2]
    /\ gmem \in [0 .. (GSize - 1) -> Byte]
    /\ sender = "any" => gmem = [a \in 0 .. (GSize - 1) |-> 0]
    /\ written = {}
    /\ rx = IdleRx
    /\ rwire = NoWire
    /\ eng = IdleEng
    /\ pending_receive_buffer = None
    /\ pending_response = FALSE
    /\ sent = {}
    /\ SendInit
    /\ XferIdle
    /\ WorkerIdle
    /\ DeviceInit
    /\ AccIdle
    /\ BnIdle
    /\ CpuIdle
    /\ SdkIdle

NextSend ==
    /\ SendNext
    /\ UNCHANGED <<side, memVars, hostVars, recvVars, xferVars, workerVars, deviceVars, accVars, bnVars, cpuVars, sdkVars>>

SpecSend == InitSend /\ [][NextSend]_vars

\* The host engine's buffer transfers against a device that interleaves page
\* requests.
InitXfer ==
    /\ side = "host"
    /\ MemInit
    /\ HostInit
    /\ peer = "engine"
    /\ RecvInit
    /\ sender = "any"
    /\ SendInit
    /\ XferInit
    /\ WorkerIdle
    /\ DeviceInit
    /\ AccIdle
    /\ BnIdle
    /\ CpuIdle
    /\ SdkIdle

NextXfer ==
    /\ XferNext
    /\ UNCHANGED <<side, memVars, recvVars, sendVars, workerVars, deviceVars, accVars, bnVars, cpuVars, sdkVars>>

SpecXfer == InitXfer /\ [][NextXfer]_vars

\* The host client's send_message, through the worker or through the sync
\* client, over the engine and a guest.
InitWorker ==
    /\ side = "host"
    /\ MemInit
    /\ HostInit
    /\ peer = "engine"
    /\ RecvInit
    /\ sender = "any"
    /\ SendInit
    /\ XferIdle
    /\ wmode \in {"worker", "sync"}
    /\ WorkerInit
    /\ DeviceInit
    /\ AccIdle
    /\ BnIdle
    /\ CpuIdle
    /\ SdkIdle

NextWorker ==
    /\ WorkerNext
    /\ UNCHANGED <<side, memVars, recvVars, sendVars, deviceVars, accVars, bnVars, cpuVars, sdkVars>>

SpecWorker == InitWorker /\ [][NextWorker]_vars

\* The same client on a runtime that polls its tasks: an aborted task is
\* cancelled, and a worker that is polled reaches the top of its loop.
SpecWorkerLive == InitWorker /\ [][NextWorker]_vars /\ WF_vars(worker_shutdown /\ NextWorker)

\* The device's command loop: registration, preload and the start of a run.
InitDevice ==
    /\ side = "device"
    /\ MemInit
    /\ HostInit
    /\ peer = "engine"
    /\ RecvInit
    /\ sender = "any"
    /\ SendInit
    /\ XferIdle
    /\ WorkerIdle
    /\ DeviceInit
    /\ AccIdle
    /\ BnIdle
    /\ CpuIdle
    /\ SdkIdle

NextDevice ==
    /\ DeviceNext
    /\ UNCHANGED <<side, memVars, hostVars, recvVars, sendVars, xferVars, workerVars, accVars, bnVars, cpuVars, sdkVars>>

SpecDevice == InitDevice /\ [][NextDevice]_vars

\* The preload handler, run after run, on a device whose table stays as it is.
NextPreload ==
    /\ PreloadNext
    /\ UNCHANGED <<side, memVars, hostVars, recvVars, sendVars, xferVars, workerVars, accVars, bnVars, cpuVars, sdkVars>>

SpecPreload == InitDevice /\ [][NextPreload]_vars

\* The accumulator's interface, called with any index, co-path and value.
InitAcc ==
    /\ side = "host"
    /\ MemInit
    /\ HostInit
    /\ peer = "engine"
    /\ RecvInit
    /\ sender = "any"
    /\ SendInit
    /\ XferIdle
    /\ WorkerIdle
    /\ DeviceInit
    /\ AccInit
    /\ BnIdle
    /\ CpuIdle
    /\ SdkIdle

NextAcc ==
    /\ AccNext
    /\ UNCHANGED <<protocolVars, bnVars, cpuVars, sdkVars>>

SpecAcc == InitAcc /\ [][NextAcc]_vars

\* The big-number ECALLs on a guest segment of any content.
InitBn ==
    /\ side = "device"
    /\ MemInit
    /\ HostInit
    /\ peer = "engine"
    /\ gmem \in [0 .. (GSize - 1) -> Byte]
    /\ written = {}
    /\ rx = IdleRx
    /\ rwire = NoWire
    /\ eng = IdleEng
    /\ pending_receive_buffer = None
    /\ pending_response = FALSE
    /\ sent = {}
    /\ sender = "any"
    /\ SendInit
    /\ XferIdle
    /\ WorkerIdle
    /\ DeviceInit
    /\ AccIdle
    /\ BnIdle
    /\ CpuIdle
    /\ SdkIdle

NextBn ==
    /\ BnNext
    /\ UNCHANGED <<side, memVars, hostVars, sendVars, xferVars, workerVars, deviceVars,
                   accVars, cpuVars, sdkVars>>
    /\ UNCHANGED <<peer, written, rx, rwire, eng, pending_receive_buffer,
                   pending_response, sent>>

SpecBn == InitBn /\ [][NextBn]_vars

\* The CPU executing any instructions.
InitCpu ==
    /\ side = "device"
    /\ MemInit
    /\ HostInit
    /\ peer = "engine"
    /\ RecvInit
    /\ sender = "any"
    /\ SendInit
    /\ XferIdle
    /\ WorkerIdle
    /\ DeviceInit
    /\ AccIdle
    /\ BnIdle
    /\ CpuInit
    /\ SdkIdle

NextCpu ==
    /\ CpuNext
    /\ UNCHANGED <<protocolVars, accVars, bnVars, sdkVars>>

SpecCpu == InitCpu /\ [][NextCpu]_vars

\* send_message of the app SDK against receive_message.
InitComm ==
    /\ RestIdle
    /\ CommInit
    /\ NvIdle
    /\ UxIdle

NextComm ==
    /\ CommNext
    /\ UNCHANGED <<protocolVars, accVars, bnVars, cpuVars, nv, ux>>

SpecComm == InitComm /\ [][NextComm]_vars

\* Both programs keep running.
SpecCommLive == InitComm /\ [][NextComm]_vars /\ WF_vars(NextComm)

\* The registry in NVRAM: registrations, removals, the uninstall of the
\* settings menu, and executions that stop between two writes.
InitNvm ==
    /\ RestIdle
    /\ CommIdle
    /\ NvInit
    /\ UxIdle

NextNvm ==
    /\ NvNext
    /\ UNCHANGED <<protocolVars, accVars, bnVars, cpuVars, cm, ux>>

SpecNvm == InitNvm /\ [][NextNvm]_vars

\* The device keeps executing: a write that is due is made unless execution
\* stops, and the uninstall loop takes its next turn.
SpecNvmLive ==
    /\ InitNvm
    /\ [][NextNvm]_vars
    /\ WF_vars(nvm_write /\ NextNvm)
    /\ WF_vars(uninstall_turn /\ NextNvm)

InitUx ==
    /\ RestIdle
    /\ CommIdle
    /\ NvIdle
    /\ UxInit

NextUx ==
    /\ UxNext
    /\ UNCHANGED <<protocolVars, accVars, bnVars, cpuVars>>

SpecUx == InitUx /\ [][NextUx]_vars


=============================================================================
